---- MODULE Spec2Model ----
(***************************************************************************)
(* Sharded AVL store (AVLTreeAdaptive) with its adaptive router, the       *)
(* redirect index (RedirectIndex) and the dynamic shard rebalancer.        *)
(*                                                                         *)
(* A shard's tree is represented by its contents, a function from keys to  *)
(* the stored value (NoVal where the key is absent): the operations of the *)
(* store only use insert / remove / contains / get / size of the tree.     *)
(* Every public operation of the store is one action; the shard mutex is   *)
(* held for the whole of each shard access, so an action is the atomic     *)
(* effect of a complete call.                                              *)
(*                                                                         *)
(* The single-shard map (AVLTreeConcurrent) is modelled node by node, with *)
(* its heights and rotations, as the tree root_ with its counter size_.    *)
(*                                                                         *)
(* For the claims about locks and counters the store is also modelled      *)
(* thread by thread (SpecThreads): a call is split at its routing decision *)
(* and at each acquisition of a shard mutex.  SpecBarrier adds rebalance   *)
(* with its global barrier next to one client thread.                      *)
(*                                                                         *)
(* SpecIndex drives a RedirectIndex on its own, method by method.          *)
(* SpecFunctional drives two AVLTreeFunctional objects whose immutable     *)
(* nodes live in one heap, so that a tree and its snapshot share nodes.    *)
(***************************************************************************)
EXTENDS Integers, Sequences, FiniteSets, TLC

\* ---------------------------------------------------------------- bounds
NumShards == 2
MaxKey == 2
MaxVal == 2
MaxTreeKey == 4
NumThreads == 2

\* ------------------------------------------------- router configuration
HotspotNum == 3
HotspotDen == 2
HotspotFloor == 1
VirtualNodes == 2
RingSize == 8

Shards == 0..(NumShards - 1)
Keys == 0..MaxKey
Vals == 1..MaxVal
NoVal == 0
NoShard == -1
NotFound == -1

Strategies == {"STATIC_HASH", "LOAD_AWARE", "VIRTUAL_NODES", "INTELLIGENT"}

\* ratio thresholds handed to rebalance, as <<numerator, denominator>>
Ratios == {<<1, 1>>, <<3, 2>>, <<2, 1>>}

VARIABLES
    routing_strategy_,  \* strategy fixed at construction
    shards_,            \* shards_[s][k]: value of k in shard s's tree, or NoVal
    local_size,         \* per-shard element counter
    shard_loads,        \* the router's per-shard load counters
    redirects_,         \* redirect index: key -> shard, or NoShard
    live,               \* history: value of the last put of k, NoVal once removed
    migrated,           \* history: entries the latest step migrated (0 unless it was a rebalance)
    root_,              \* single-shard map: root node of the tree (Nil when empty)
    size_,              \* single-shard map: element counter
    entries,            \* history: entries[k] is the value last inserted for k, NoVal once removed
    outcome,            \* history: what the latest operation on the single-shard map did
    thr,                \* thr[t]: the call thread t is executing on the store, and where it is
    lock,               \* lock[s]: the thread holding shard s's mutex, NoThread when free
    barrier,            \* the global rebalance barrier: "free" or "exclusive"
    index,              \* a RedirectIndex on its own: its map and its statistics counters
    index_ret,          \* history: the latest call on index and what it returned
    heap,               \* AVLTreeFunctional: the immutable nodes alive, by address
    fn_root,            \* AVLTreeFunctional: fn_root[i] is root_ of tree i (0 is nullptr)
    fn_size,            \* AVLTreeFunctional: fn_size[i] is size_ of tree i
    fn_op,              \* history: the latest mutation of a functional tree
    dod,                \* AVLTreeDOD: its arrays, root_, size_ and free_list_
    dod_ret,            \* history: the latest call on dod and what it returned
    rb,                 \* the latest call of rebalance or a rotation on its own: input and result
    dicc,               \* DiccionarioAVL: its nodes by address, _raiz, _cardinal
    dicc_hist,          \* history: the latest call on dicc, and the definition last given to each key
    ol,                 \* AVLTreeOptimisticLock: nodes and their locks, root_, size_, the threads inside insert
    fg,                 \* AVLTreeFineGrained: nodes, root_, size_, the writer inside insert or remove, the reader inside contains
    dr,                 \* the latest rebalance run on shard counts alone: the counts, the threshold, what was drained
    sz                  \* a call of size() on the sharded store: its place in the loop, its total; history: the live counts since its call

store_vars == <<routing_strategy_, shards_, local_size, shard_loads, redirects_, live, migrated>>
tree_vars == <<root_, size_, entries, outcome>>
thread_vars == <<thr, lock, barrier>>
index_vars == <<index, index_ret>>
fn_vars == <<heap, fn_root, fn_size, fn_op>>
dod_vars == <<dod, dod_ret>>
\* GROUPS-BEGIN
dicc_vars == <<dicc, dicc_hist>>
ext_vars == <<dod_vars, rb, dicc_vars, ol, fg, dr, sz>>
not_dod == <<rb, dicc_vars, ol, fg, dr, sz>>
not_rb == <<dod_vars, dicc_vars, ol, fg, dr, sz>>
not_dicc == <<dod_vars, rb, ol, fg, dr, sz>>
not_ol == <<dod_vars, rb, dicc_vars, fg, dr, sz>>
not_fg == <<dod_vars, rb, dicc_vars, ol, dr, sz>>
not_dr == <<dod_vars, rb, dicc_vars, ol, fg, sz>>
not_sz == <<dod_vars, rb, dicc_vars, ol, fg, dr>>
\* GROUPS-END
vars == <<routing_strategy_, shards_, local_size, shard_loads, redirects_, live, migrated,
          root_, size_, entries, outcome, thr, lock, barrier,
          index, index_ret, heap, fn_root, fn_size, fn_op, ext_vars>>

\* ------------------------------------------------------------- helpers
RECURSIVE SumTo(_, _)
SumTo(f, n) == IF n < 0 THEN 0 ELSE f[n] + SumTo(f, n - 1)

SumShards(f) == SumTo(f, NumShards - 1)

MaxOf(S) == CHOOSE x \in S : \A y \in S : y <= x
MinOf(S) == CHOOSE x \in S : \A y \in S : x <= y

EmptyTree == [k \in Keys |-> NoVal]

\* AVLTree::size / contains / get / insert / remove on a shard's tree
TreeSize(t) == Cardinality({k \in Keys : t[k] # NoVal})
TreeContains(t, k) == t[k] # NoVal
TreeGet(t, k) == t[k]
TreeInsert(t, k, v) == [t EXCEPT ![k] = v]
TreeRemove(t, k) == [t EXCEPT ![k] = NoVal]

\* ------------------------------------------- single-shard map (the tree)
TreeKeys == 0..MaxTreeKey
EmptyError == -2

\* the null node pointer, and a freshly made node
Nil == <<>>
Node(k, v) == [key |-> k, value |-> v, left |-> Nil, right |-> Nil, height |-> 1]

Max2(a, b) == IF a >= b THEN a ELSE b

height(n) == IF n = Nil THEN 0 ELSE n.height

balanceFactor(n) == IF n = Nil THEN 0 ELSE height(n.right) - height(n.left)

updateHeight(n) ==
    IF n = Nil THEN n
    ELSE [n EXCEPT !.height = 1 + Max2(height(n.left), height(n.right))]

rotateLeft(x) ==
    LET y == x.right
        B == y.left
        x1 == updateHeight([x EXCEPT !.right = B])
    IN updateHeight([y EXCEPT !.left = x1])

rotateRight(x) ==
    LET y == x.left
        B == y.right
        x1 == updateHeight([x EXCEPT !.left = B])
    IN updateHeight([y EXCEPT !.right = x1])

\* a rebalance that recomputes the height and never rotates
rebalanceNode_NoRotate(node) ==
    IF node = Nil THEN Nil ELSE updateHeight(node)

\* a rebalance that always rotates once, also when the taller child leans
\* the other way
rebalanceNode_SingleOnly(node) ==
    IF node = Nil THEN Nil
    ELSE LET n == updateHeight(node)
             bf == balanceFactor(n)
         IN IF bf < -1 THEN rotateRight(n)
            ELSE IF bf > 1 THEN rotateLeft(n)
            ELSE n

\* AVLTreeConcurrent::rebalance (of one node)
rebalanceNode(node) ==
    IF node = Nil THEN Nil
    ELSE LET n == updateHeight(node)
             bf == balanceFactor(n)
         IN IF bf < -1
            THEN IF balanceFactor(n.left) > 0
                 THEN rotateRight([n EXCEPT !.left = rotateLeft(n.left)])
                 ELSE rotateRight(n)
            ELSE IF bf > 1
            THEN IF balanceFactor(n.right) < 0
                 THEN rotateLeft([n EXCEPT !.right = rotateRight(n.right)])
                 ELSE rotateLeft(n)
            ELSE n

\* an insertRec without the equal-key branch: an equal key is sent to the right
RECURSIVE insertRec_Duplicates(_, _, _)
insertRec_Duplicates(node, key, value) ==
    IF node = Nil THEN [node |-> Node(key, value), inserted |-> TRUE]
    ELSE IF key < node.key
    THEN LET r == insertRec_Duplicates(node.left, key, value)
         IN [node |-> rebalanceNode([node EXCEPT !.left = r.node]), inserted |-> r.inserted]
    ELSE LET r == insertRec_Duplicates(node.right, key, value)
         IN [node |-> rebalanceNode([node EXCEPT !.right = r.node]), inserted |-> r.inserted]

\* result: the new subtree and the flag the call leaves in `inserted`
RECURSIVE insertRec(_, _, _)
insertRec(node, key, value) ==
    IF node = Nil THEN [node |-> Node(key, value), inserted |-> TRUE]
    ELSE IF key < node.key
    THEN LET r == insertRec(node.left, key, value)
         IN [node |-> rebalanceNode([node EXCEPT !.left = r.node]), inserted |-> r.inserted]
    ELSE IF node.key < key
    THEN LET r == insertRec(node.right, key, value)
         IN [node |-> rebalanceNode([node EXCEPT !.right = r.node]), inserted |-> r.inserted]
    ELSE [node |-> [node EXCEPT !.value = value], inserted |-> FALSE]

RECURSIVE findMin(_)
findMin(node) ==
    IF node # Nil /\ node.left # Nil THEN findMin(node.left) ELSE node

RECURSIVE findMax(_)
findMax(node) ==
    IF node # Nil /\ node.right # Nil THEN findMax(node.right) ELSE node

\* a removeRec that copies the successor's key into the node but not its value
RECURSIVE removeRec_KeyOnly(_, _)
removeRec_KeyOnly(node, key) ==
    IF node = Nil THEN [node |-> Nil, removed |-> FALSE]
    ELSE IF key < node.key
    THEN LET r == removeRec_KeyOnly(node.left, key)
         IN [node |-> rebalanceNode([node EXCEPT !.left = r.node]), removed |-> r.removed]
    ELSE IF node.key < key
    THEN LET r == removeRec_KeyOnly(node.right, key)
         IN [node |-> rebalanceNode([node EXCEPT !.right = r.node]), removed |-> r.removed]
    ELSE IF node.left = Nil THEN [node |-> node.right, removed |-> TRUE]
    ELSE IF node.right = Nil THEN [node |-> node.left, removed |-> TRUE]
    ELSE LET successor == findMin(node.right)
             r == removeRec_KeyOnly(node.right, successor.key)
         IN [node |-> rebalanceNode([node EXCEPT !.key = successor.key,
                                                 !.right = r.node]),
             removed |-> r.removed]

\* result: the new subtree and the flag the call leaves in `removed`
RECURSIVE removeRec(_, _)
removeRec(node, key) ==
    IF node = Nil THEN [node |-> Nil, removed |-> FALSE]
    ELSE IF key < node.key
    THEN LET r == removeRec(node.left, key)
         IN [node |-> rebalanceNode([node EXCEPT !.left = r.node]), removed |-> r.removed]
    ELSE IF node.key < key
    THEN LET r == removeRec(node.right, key)
         IN [node |-> rebalanceNode([node EXCEPT !.right = r.node]), removed |-> r.removed]
    ELSE IF node.left = Nil THEN [node |-> node.right, removed |-> TRUE]
    ELSE IF node.right = Nil THEN [node |-> node.left, removed |-> TRUE]
    ELSE LET successor == findMin(node.right)
             r == removeRec(node.right, successor.key)
         IN [node |-> rebalanceNode([node EXCEPT !.key = successor.key,
                                                 !.value = successor.value,
                                                 !.right = r.node]),
             removed |-> r.removed]

RECURSIVE containsRec(_, _)
containsRec(node, key) ==
    IF node = Nil THEN FALSE
    ELSE IF key = node.key THEN TRUE
    ELSE IF key < node.key THEN containsRec(node.left, key)
    ELSE containsRec(node.right, key)

\* the value found, or NotFound where the code throws "Key not found"
RECURSIVE getRec(_, _)
getRec(node, key) ==
    IF node = Nil THEN NotFound
    ELSE IF key = node.key THEN node.value
    ELSE IF key < node.key THEN getRec(node.left, key)
    ELSE getRec(node.right, key)

\* the node removeRec stops at for key has a left and a right child
RECURSIVE HasTwoChildren(_, _)
HasTwoChildren(node, key) ==
    IF node = Nil THEN FALSE
    ELSE IF key < node.key THEN HasTwoChildren(node.left, key)
    ELSE IF node.key < key THEN HasTwoChildren(node.right, key)
    ELSE node.left # Nil /\ node.right # Nil

\* minKey / maxKey: the key found, or EmptyError where the code throws "Empty tree"
MinKeyOf(root) == IF findMin(root) = Nil THEN EmptyError ELSE findMin(root).key

\* a maxKey that stops at the root instead of walking to the rightmost node
MaxKeyOf_Root(root) == IF root = Nil THEN EmptyError ELSE root.key

MaxKeyOf(root) == IF findMax(root) = Nil THEN EmptyError ELSE findMax(root).key

\* ------------------------------------------------------------- router
\* std::hash<int> (libstdc++): the identity on int keys
stable_hash(k) == k

\* position of replica r of shard s on the virtual-node ring
TokenPos(s, r) == (3 * s + 5 * r + 1) % RingSize

\* owner of a ring position: lowest shard index among the tokens placed there
TokenOwner(p) == MinOf({s \in Shards : \E r \in 0..(VirtualNodes - 1) : TokenPos(s, r) = p})

RingPositions == {TokenPos(s, r) : s \in Shards, r \in 0..(VirtualNodes - 1)}

\* ring positions in probe order starting at the first token >= h, wrapping
RECURSIVE SortAsc(_)
SortAsc(S) == IF S = {} THEN <<>> ELSE <<MinOf(S)>> \o SortAsc(S \ {MinOf(S)})

RingFrom(h) ==
    SortAsc({p \in RingPositions : p >= h % RingSize}) \o
    SortAsc({p \in RingPositions : p < h % RingSize})

\* a natural shard that steps aside when the hashed shard is loaded above
\* HotspotNum/HotspotDen times the mean
NaturalOf_LoadAware(strategy, k) ==
    LET h == stable_hash(k) % NumShards IN
    IF /\ shard_loads[h] * NumShards * HotspotDen > HotspotNum * SumShards(shard_loads)
       /\ shard_loads[h] > HotspotFloor
    THEN (h + 1) % NumShards
    ELSE h

\* natural shard: ignores the load counters
NaturalOf(strategy, k) ==
    IF strategy \in {"VIRTUAL_NODES", "INTELLIGENT"}
    THEN TokenOwner(RingFrom(stable_hash(k))[1])
    ELSE stable_hash(k) % NumShards

\* hotspot: load above HotspotNum/HotspotDen times the mean, and above the floor
IsHotspot(loads, i) ==
    /\ loads[i] * NumShards * HotspotDen > HotspotNum * SumShards(loads)
    /\ loads[i] > HotspotFloor

\* LOAD_AWARE diversion: probe (h+1), (h+2), ... and take the first non-hotspot
RECURSIVE ProbeShards(_, _, _)
ProbeShards(loads, h, i) ==
    IF i > NumShards THEN h
    ELSE IF ~IsHotspot(loads, (h + i) % NumShards) THEN (h + i) % NumShards
    ELSE ProbeShards(loads, h, i + 1)

\* INTELLIGENT diversion: walk the ring tokens after the chosen one
RECURSIVE ProbeRing(_, _, _, _)
ProbeRing(loads, ring, i, h) ==
    IF i > Len(ring) THEN h
    ELSE IF ~IsHotspot(loads, TokenOwner(ring[i])) THEN TokenOwner(ring[i])
    ELSE ProbeRing(loads, ring, i + 1, h)

\* a router that never diverts: every key goes to its natural shard
RouteOf_NoDiversion(strategy, loads, k) == NaturalOf(strategy, k)

RouteOf(strategy, loads, k) ==
    LET h == NaturalOf(strategy, k) IN
    IF strategy = "LOAD_AWARE" /\ IsHotspot(loads, h) THEN ProbeShards(loads, h, 1)
    ELSE IF strategy = "INTELLIGENT" /\ IsHotspot(loads, h)
         THEN ProbeRing(loads, RingFrom(stable_hash(k)), 2, h)
    ELSE h

\* number of alternatives route examines after the natural shard h: shards
\* (h+1), (h+2), ... under LOAD_AWARE, ring tokens under INTELLIGENT, up to and
\* including the first that is not a hotspot; 0 when h is returned at once
RECURSIVE ShardProbes(_, _, _)
ShardProbes(loads, h, i) ==
    IF i >= NumShards \/ ~IsHotspot(loads, (h + i) % NumShards) THEN i
    ELSE ShardProbes(loads, h, i + 1)

RECURSIVE RingProbes(_, _, _)
RingProbes(loads, ring, i) ==
    IF i >= Len(ring) \/ ~IsHotspot(loads, TokenOwner(ring[i])) THEN i - 1
    ELSE RingProbes(loads, ring, i + 1)

RouteProbes(strategy, loads, k) ==
    LET h == NaturalOf(strategy, k) IN
    IF strategy = "LOAD_AWARE" /\ IsHotspot(loads, h) THEN ShardProbes(loads, h, 1)
    ELSE IF strategy = "INTELLIGENT" /\ IsHotspot(loads, h)
         THEN RingProbes(loads, RingFrom(stable_hash(k)), 2)
    ELSE 0

natural(k) == NaturalOf(routing_strategy_, k)
route(k) == RouteOf(routing_strategy_, shard_loads, k)

\* a notification that counts every inserted key twice
recordInsertion_Twice(loads, s) == [loads EXCEPT ![s] = @ + 2]

recordInsertion(loads, s) == [loads EXCEPT ![s] = @ + 1]
recordRemoval(loads, s) == [loads EXCEPT ![s] = @ - 1]

\* ------------------------------------------------------ redirect index
\* a record_redirect that stores the entry also when actual is the natural shard
record_redirect_Always(red, k, natural_shard, actual_shard) ==
    [red EXCEPT ![k] = actual_shard]

record_redirect(red, k, natural_shard, actual_shard) ==
    IF natural_shard = actual_shard THEN red
    ELSE [red EXCEPT ![k] = actual_shard]

lookup(k) == redirects_[k]

redirect_remove(red, k) == [red EXCEPT ![k] = NoShard]

\* --------------------------------------------------------- the store
Threads == 1..NumThreads
NoThread == 0

\* a default-constructed RedirectIndex
EmptyIndex ==
    [redirects_ |-> [k \in Keys |-> NoShard], total_redirects_ |-> 0, lookups_ |-> 0, hits_ |-> 0]

\* the two AVLTreeFunctional objects: t is tree 1, s is tree 2
Trees == 1..2
nullptr == 0
MaxDiccKey == 3

\* AVLTreeDOD: INVALID is the index that names no slot.  Slot i of the
\* arrays (counted from 0 in the source) is position i + 1 of the sequences.
INVALID == 0

\* a default-constructed AVLTreeDOD
EmptyDOD ==
    [keys_ |-> <<>>, values_ |-> <<>>, left_ |-> <<>>, right_ |-> <<>>, height_ |-> <<>>,
     root_ |-> INVALID, size_ |-> 0, free_list_ |-> <<>>]

\* what a read of an array element outside the array can produce besides a
\* value: the process is stopped by the memory fault
Crash == -3

\* no call made yet
NoCall == [op |-> "none", key |-> 0, idx |-> INVALID, value |-> NoVal]

\* a thread that is not inside a call
Idle == [pc |-> "idle", op |-> "none", key |-> 0, value |-> NoVal, idx |-> 0, first |-> NoShard]

Init ==
    /\ routing_strategy_ \in Strategies
    /\ shards_ = [s \in Shards |-> EmptyTree]
    /\ local_size = [s \in Shards |-> 0]
    /\ shard_loads = [s \in Shards |-> 0]
    /\ redirects_ = [k \in Keys |-> NoShard]
    /\ live = [k \in Keys |-> NoVal]
    /\ migrated = 0
    /\ root_ = Nil
    /\ size_ = 0
    /\ entries = [k \in TreeKeys |-> NoVal]
    /\ outcome = "none"
    /\ thr = [t \in Threads |-> Idle]
    /\ lock = [s \in Shards |-> NoThread]
    /\ barrier = "free"
    /\ index = EmptyIndex
    /\ index_ret = [op |-> "none", value |-> NoShard]
    /\ heap = <<>>
    /\ fn_root = [i \in Trees |-> nullptr]
    /\ fn_size = [i \in Trees |-> 0]
    /\ fn_op = [op |-> "none", tree |-> 0]
    /\ dod = EmptyDOD
    /\ dod_ret = NoCall
    /\ rb = [op |-> "none", in |-> Nil, out |-> Nil]
    /\ dicc = [heap |-> <<>>, raiz |-> nullptr, cardinal |-> 0, status |-> "ok", visited |-> {}]
    /\ dicc_hist = [op |-> "none", clave |-> 0, defs |-> [k \in 1..MaxDiccKey |-> NoVal]]
    /\ ol = [heap |-> <<>>, root_ |-> nullptr, size_ |-> 0, done |-> {},
             th |-> [t \in Threads |->
                        [pc |-> "idle", key |-> 0, value |-> NoVal, stack |-> <<>>,
                         result |-> nullptr, inserted |-> FALSE, holds |-> nullptr]]]
    /\ fg = [heap |-> <<>>, root_ |-> nullptr, size_ |-> 0,
             w |-> [pc |-> "idle", op |-> "none", key |-> 0, stack |-> <<>>,
                    result |-> nullptr, flag |-> FALSE],
             r |-> [pc |-> "idle", key |-> 0, root_copy |-> nullptr, parent |-> nullptr,
                    side |-> "root", result |-> FALSE, present |-> FALSE, touched |-> FALSE]]
    /\ dr = [op |-> "none", counts |-> [s \in Shards |-> 0], ratio |-> <<1, 1>>, over |-> {},
             E |-> [s \in Shards |-> 0], after |-> [s \in Shards |-> 0],
             drained |-> [s \in Shards |-> 0], inserted |-> 0]
    /\ sz = [pc |-> "idle", idx |-> 0, total |-> 0, seen |-> {}]

\* insert that leaves out the router notification (recordInsertion)
insert_NoRecord(key, value) ==
    LET shard_idx == route(key)
        old_size == TreeSize(shards_[shard_idx])
        new_tree == TreeInsert(shards_[shard_idx], key, value)
        new_size == TreeSize(new_tree)
    IN /\ shards_' = [shards_ EXCEPT ![shard_idx] = new_tree]
       /\ IF new_size > old_size
          THEN local_size' = [local_size EXCEPT ![shard_idx] = @ + 1]
          ELSE UNCHANGED local_size
       /\ UNCHANGED shard_loads
       /\ live' = [live EXCEPT ![key] = value]
       /\ migrated' = 0
       /\ UNCHANGED <<routing_strategy_, redirects_>>
       /\ UNCHANGED <<tree_vars, thread_vars, index_vars, fn_vars, ext_vars>>

\* AVLTreeAdaptive::insert
insert(key, value) ==
    LET shard_idx == route(key)
        old_size == TreeSize(shards_[shard_idx])
        new_tree == TreeInsert(shards_[shard_idx], key, value)
        new_size == TreeSize(new_tree)
    IN /\ shards_' = [shards_ EXCEPT ![shard_idx] = new_tree]
       /\ IF new_size > old_size
          THEN /\ local_size' = [local_size EXCEPT ![shard_idx] = @ + 1]
               /\ shard_loads' = recordInsertion(shard_loads, shard_idx)
          ELSE UNCHANGED <<local_size, shard_loads>>
       /\ live' = [live EXCEPT ![key] = value]
       /\ migrated' = 0
       /\ UNCHANGED <<routing_strategy_, redirects_>>
       /\ UNCHANGED <<tree_vars, thread_vars, index_vars, fn_vars, ext_vars>>

\* first shard, scanning 0..N-1, whose tree holds key (NoShard if none)
FirstHolder(key) ==
    IF \E i \in Shards : TreeContains(shards_[i], key)
    THEN MinOf({i \in Shards : TreeContains(shards_[i], key)})
    ELSE NoShard

\* a remove that does not notify the router (recordRemoval)
remove_NoRecord(key) ==
    LET i == FirstHolder(key) IN
    /\ IF i # NoShard
       THEN /\ shards_' = [shards_ EXCEPT ![i] = TreeRemove(@, key)]
            /\ local_size' = [local_size EXCEPT ![i] = @ - 1]
            /\ UNCHANGED shard_loads
       ELSE UNCHANGED <<shards_, local_size, shard_loads>>
    /\ live' = [live EXCEPT ![key] = NoVal]
    /\ migrated' = 0
    /\ UNCHANGED <<routing_strategy_, redirects_>>
    /\ UNCHANGED <<tree_vars, thread_vars, index_vars, fn_vars, ext_vars>>

\* AVLTreeAdaptive::remove
remove(key) ==
    LET i == FirstHolder(key) IN
    /\ IF i # NoShard
       THEN /\ shards_' = [shards_ EXCEPT ![i] = TreeRemove(@, key)]
            /\ local_size' = [local_size EXCEPT ![i] = @ - 1]
            /\ shard_loads' = recordRemoval(shard_loads, i)
       ELSE UNCHANGED <<shards_, local_size, shard_loads>>
    /\ live' = [live EXCEPT ![key] = NoVal]
    /\ migrated' = 0
    /\ UNCHANGED <<routing_strategy_, redirects_>>
    /\ UNCHANGED <<tree_vars, thread_vars, index_vars, fn_vars, ext_vars>>

\* shard in which contains/get find key: the routed shard first, then the
\* other shards in index order; NoShard on a miss
FoundInOf(trees, loads, strategy, key) ==
    LET shard_idx == RouteOf(strategy, loads, key) IN
    IF TreeContains(trees[shard_idx], key) THEN shard_idx
    ELSE IF \E i \in Shards : TreeContains(trees[i], key)
         THEN MinOf({i \in Shards : TreeContains(trees[i], key)})
         ELSE NoShard

ContainsOf(trees, loads, strategy, key) ==
    FoundInOf(trees, loads, strategy, key) # NoShard

GetOf(trees, loads, strategy, key) ==
    LET f == FoundInOf(trees, loads, strategy, key) IN
    IF f = NoShard THEN NotFound ELSE TreeGet(trees[f], key)

FoundIn(key) == FoundInOf(shards_, shard_loads, routing_strategy_, key)

\* number of shard probes contains/get perform for key
Probes(key) ==
    LET shard_idx == route(key)
        f == FoundIn(key)
    IN IF f = shard_idx THEN 1
       ELSE IF f = NoShard THEN NumShards
       ELSE 1 + Cardinality({i \in Shards : i # shard_idx /\ i <= f})

\* what contains(key) and get(key) return in the current state
ContainsResult(key) == ContainsOf(shards_, shard_loads, routing_strategy_, key)
GetResult(key) == GetOf(shards_, shard_loads, routing_strategy_, key)

\* what they return once the step has been taken
ContainsAfter(key) == ContainsOf(shards_', shard_loads', routing_strategy_', key)
GetAfter(key) == GetOf(shards_', shard_loads', routing_strategy_', key)

\* AVLTreeAdaptive::contains
contains(key) ==
    /\ ContainsResult(key) \in BOOLEAN
    /\ UNCHANGED vars

\* AVLTreeAdaptive::get
get(key) ==
    /\ GetResult(key) \in Vals \cup {NotFound}
    /\ UNCHANGED vars

\* AVLTreeAdaptive::size
size == SumShards(local_size)

\* ------------------------------------------------------ balance metrics
\* balance score 1 - (Lmax - Lmin) / max(Lmax, 1) as the fraction
\* <<numerator, denominator>> over the given per-shard loads
BalanceScoreOf(loads) ==
    LET lmax == MaxOf({loads[s] : s \in Shards})
        lmin == MinOf({loads[s] : s \in Shards})
        den == IF lmax > 1 THEN lmax ELSE 1
    IN <<den - (lmax - lmin), den>>

balance_score == BalanceScoreOf(shard_loads)

\* a/b >= c/d for fractions with positive denominators
FracGeq(x, y) == x[1] * y[2] >= y[1] * x[2]

\* thresholds handed to should_rebalance, as <<numerator, denominator>>; 7/10
\* is the default
Thresholds == {<<0, 1>>, <<1, 2>>, <<7, 10>>, <<1, 1>>}

\* should_rebalance(threshold): balance_score() < threshold
should_rebalance(threshold) == ~FracGeq(balance_score, threshold)

\* ------------------------------------------------------------ rebalance
\* shards with count > ratio * mean, where mean = total / NumShards
Overloaded(counts, total, ratio) ==
    {s \in Shards : counts[s] * NumShards * ratio[2] > ratio[1] * total}

\* shards with count < mean
Underloaded(counts, total) ==
    {s \in Shards : counts[s] * NumShards < total}

\* the overloaded shards in descending order of count, lowest index first on a tie
RECURSIVE DescendingByCount(_, _)
DescendingByCount(counts, S) ==
    IF S = {} THEN <<>>
    ELSE LET top == MaxOf({counts[s] : s \in S})
             s0 == MinOf({s \in S : counts[s] = top})
         IN <<s0>> \o DescendingByCount(counts, S \ {s0})

\* E = count - mean, rounded to the nearest integer (half rounds up)
RoundedExcess(count, total) ==
    (2 * (count * NumShards - total) + NumShards) \div (2 * NumShards)

\* next target of the round-robin distribution after shard prev
NextTarget(under, prev) ==
    IF \E t \in under : t > prev THEN MinOf({t \in under : t > prev})
    ELSE MinOf(under)

\* migrate up to e entries of shard s, smallest key first, to the underloaded shards
RECURSIVE MigrateEntries(_, _, _, _, _)
MigrateEntries(st, strategy, total, s, e) ==
    IF e <= 0 \/ st.under = {} \/ TreeSize(st.tree[s]) = 0 THEN st
    ELSE LET k == MinOf({x \in Keys : TreeContains(st.tree[s], x)})
             v == TreeGet(st.tree[s], k)
             t == NextTarget(st.under, st.prev)
             tree1 == [st.tree EXCEPT ![s] = TreeRemove(@, k),
                                      ![t] = TreeInsert(@, k, v)]
             st1 == [tree |-> tree1,
                     red |-> record_redirect(st.red, k, NaturalOf(strategy, k), t),
                     under |-> IF TreeSize(tree1[t]) * NumShards >= total
                               THEN st.under \ {t} ELSE st.under,
                     prev |-> t,
                     moved |-> st.moved + 1]
         IN MigrateEntries(st1, strategy, total, s, e - 1)

\* process the overloaded shards in order
RECURSIVE RebalanceFrom(_, _, _, _, _, _)
RebalanceFrom(st, strategy, counts, total, order, i) ==
    IF i > Len(order) THEN st
    ELSE RebalanceFrom(
            MigrateEntries(st, strategy, total, order[i],
                           RoundedExcess(counts[order[i]], total)),
            strategy, counts, total, order, i + 1)

RebalanceResult(trees, counts, red, strategy, ratio) ==
    LET total == SumShards(counts)
        st0 == [tree |-> trees, red |-> red,
                under |-> Underloaded(counts, total),
                prev |-> NoShard, moved |-> 0]
    IN RebalanceFrom(st0, strategy, counts, total,
                     DescendingByCount(counts, Overloaded(counts, total, ratio)), 1)

\* steps 2 to 4 of rebalance: migrate, refresh the redirect index, reconcile
Migrate(ratio) ==
    LET st == RebalanceResult(shards_, local_size, redirects_, routing_strategy_, ratio) IN
    /\ shards_' = st.tree
    /\ redirects_' = st.red
    /\ local_size' = [s \in Shards |-> TreeSize(st.tree[s])]
    /\ shard_loads' = [s \in Shards |-> TreeSize(st.tree[s])]
    /\ migrated' = st.moved
    /\ UNCHANGED <<routing_strategy_, live>>

\* rebalance(ratio_threshold): under the exclusive barrier
rebalance(ratio) ==
    /\ Migrate(ratio)
    /\ UNCHANGED <<tree_vars, thread_vars, index_vars, fn_vars, ext_vars>>

\* ------------------------------------------------------------------ gc
\* gc_expired that drops every entry
gc_expired_by_All(red, f) ==
    [redirects |-> [k \in Keys |-> NoShard],
     removed |-> Cardinality({k \in Keys : red[k] # NoShard})]

\* RedirectIndex::gc_expired(router_natural_fn): the map it leaves and the
\* number of entries it removed
gc_expired_by(red, f) ==
    LET expired == {k \in Keys : red[k] # NoShard /\ f[k] = red[k]} IN
    [redirects |-> [k \in Keys |-> IF k \in expired THEN NoShard ELSE red[k]],
     removed |-> Cardinality(expired)]

\* gc_expired with the router's natural function: the entries it removes
Expired(red, strategy) ==
    {k \in Keys : red[k] # NoShard /\ NaturalOf(strategy, k) = red[k]}

gc_expired(red, strategy) ==
    gc_expired_by(red, [k \in Keys |-> NaturalOf(strategy, k)]).redirects

\* gc_redirects()
gc_redirects ==
    /\ redirects_' = gc_expired(redirects_, routing_strategy_)
    /\ migrated' = 0
    /\ UNCHANGED <<routing_strategy_, shards_, local_size, shard_loads, live>>
    /\ UNCHANGED <<tree_vars, thread_vars, index_vars, fn_vars, ext_vars>>

Next ==
    \/ \E k \in Keys, v \in Vals : insert(k, v)
    \/ \E k \in Keys : remove(k)
    \/ \E k \in Keys : contains(k)
    \/ \E k \in Keys : get(k)
    \/ \E r \in Ratios : rebalance(r)
    \/ gc_redirects

Spec == Init /\ [][Next]_vars

\* the store driven by put / remove / contains / get only
NextOps ==
    \/ \E k \in Keys, v \in Vals : insert(k, v)
    \/ \E k \in Keys : remove(k)
    \/ \E k \in Keys : contains(k)
    \/ \E k \in Keys : get(k)

SpecOps == Init /\ [][NextOps]_vars

\* ------------------------------ the store, thread by thread, lock by lock
\* A call is a sequence of steps of its thread: the routing decision, each
\* acquisition of a shard mutex (lock_guard), and the work done under that
\* mutex, which ends with its release.  Every put stores the same value: the
\* locks taken and the counters do not depend on it.

\* AVLTreeAdaptive::insert: the routing decision
insert_route(t, key, value) ==
    /\ thr[t].pc = "idle"
    /\ thr' = [thr EXCEPT ![t] = [pc |-> "wait", op |-> "insert", key |-> key,
                                  value |-> value, idx |-> route(key), first |-> NoShard]]
    /\ UNCHANGED <<store_vars, tree_vars, lock, barrier, index_vars, fn_vars, ext_vars>>

\* AVLTreeAdaptive::remove: entry of the scan over the shards, at shard 0
remove_begin(t, key) ==
    /\ thr[t].pc = "idle"
    /\ thr' = [thr EXCEPT ![t] = [pc |-> "wait", op |-> "remove", key |-> key,
                                  value |-> NoVal, idx |-> 0, first |-> NoShard]]
    /\ UNCHANGED <<store_vars, tree_vars, lock, barrier, index_vars, fn_vars, ext_vars>>

\* AVLTreeAdaptive::contains / get: the routing decision (the two calls take
\* the same locks in the same order; "lookup" stands for either)
lookup_route(t, key) ==
    /\ thr[t].pc = "idle"
    /\ thr' = [thr EXCEPT ![t] = [pc |-> "wait", op |-> "lookup", key |-> key,
                                  value |-> NoVal, idx |-> route(key), first |-> NoShard]]
    /\ UNCHANGED <<store_vars, tree_vars, lock, barrier, index_vars, fn_vars, ext_vars>>

\* a lock_guard that does not wait for the mutex to be free
acquire_NoWait(t) ==
    /\ thr[t].pc = "wait"
    /\ lock' = [lock EXCEPT ![thr[t].idx] = t]
    /\ thr' = [thr EXCEPT ![t].pc = "locked"]
    /\ UNCHANGED <<store_vars, tree_vars, barrier, index_vars, fn_vars, ext_vars>>

\* std::lock_guard<std::mutex> lock(shard->lock)
acquire(t) ==
    /\ thr[t].pc = "wait"
    /\ lock[thr[t].idx] = NoThread
    /\ lock' = [lock EXCEPT ![thr[t].idx] = t]
    /\ thr' = [thr EXCEPT ![t].pc = "locked"]
    /\ UNCHANGED <<store_vars, tree_vars, barrier, index_vars, fn_vars, ext_vars>>

\* an insert that bumps the element counter on every call
insert_locked_CountAlways(t) ==
    LET shard_idx == thr[t].idx
        new_tree == TreeInsert(shards_[shard_idx], thr[t].key, thr[t].value)
    IN /\ thr[t].pc = "locked"
       /\ thr[t].op = "insert"
       /\ shards_' = [shards_ EXCEPT ![shard_idx] = new_tree]
       /\ local_size' = [local_size EXCEPT ![shard_idx] = @ + 1]
       /\ shard_loads' = recordInsertion(shard_loads, shard_idx)
       /\ live' = [live EXCEPT ![thr[t].key] = thr[t].value]
       /\ lock' = [lock EXCEPT ![shard_idx] = NoThread]
       /\ thr' = [thr EXCEPT ![t] = Idle]
       /\ migrated' = 0
       /\ UNCHANGED <<routing_strategy_, redirects_, tree_vars, barrier, index_vars, fn_vars, ext_vars>>

\* AVLTreeAdaptive::insert under the shard mutex, up to its release
insert_locked(t) ==
    LET shard_idx == thr[t].idx
        old_size == TreeSize(shards_[shard_idx])
        new_tree == TreeInsert(shards_[shard_idx], thr[t].key, thr[t].value)
        new_size == TreeSize(new_tree)
    IN /\ thr[t].pc = "locked"
       /\ thr[t].op = "insert"
       /\ shards_' = [shards_ EXCEPT ![shard_idx] = new_tree]
       /\ IF new_size > old_size
          THEN /\ local_size' = [local_size EXCEPT ![shard_idx] = @ + 1]
               /\ shard_loads' = recordInsertion(shard_loads, shard_idx)
          ELSE UNCHANGED <<local_size, shard_loads>>
       /\ live' = [live EXCEPT ![thr[t].key] = thr[t].value]
       /\ lock' = [lock EXCEPT ![shard_idx] = NoThread]
       /\ thr' = [thr EXCEPT ![t] = Idle]
       /\ migrated' = 0
       /\ UNCHANGED <<routing_strategy_, redirects_, tree_vars, barrier, index_vars, fn_vars, ext_vars>>

\* AVLTreeAdaptive::remove under the mutex of shard i: return after a removal,
\* else go on to shard i + 1
remove_locked(t) ==
    LET i == thr[t].idx
        old_size == TreeSize(shards_[i])
        new_tree == TreeRemove(shards_[i], thr[t].key)
        new_size == TreeSize(new_tree)
    IN /\ thr[t].pc = "locked"
       /\ thr[t].op = "remove"
       /\ shards_' = [shards_ EXCEPT ![i] = new_tree]
       /\ lock' = [lock EXCEPT ![i] = NoThread]
       /\ IF new_size < old_size
          THEN /\ local_size' = [local_size EXCEPT ![i] = @ - 1]
               /\ shard_loads' = recordRemoval(shard_loads, i)
               /\ thr' = [thr EXCEPT ![t] = Idle]
               /\ live' = [live EXCEPT ![thr[t].key] = NoVal]
          ELSE /\ UNCHANGED <<local_size, shard_loads>>
               /\ IF i + 1 < NumShards
                  THEN /\ thr' = [thr EXCEPT ![t].pc = "wait", ![t].idx = i + 1]
                       /\ UNCHANGED live
                  ELSE /\ thr' = [thr EXCEPT ![t] = Idle]
                       /\ live' = [live EXCEPT ![thr[t].key] = NoVal]
       /\ migrated' = 0
       /\ UNCHANGED <<routing_strategy_, redirects_, tree_vars, barrier, index_vars, fn_vars, ext_vars>>

\* next shard of the scan "for i in 0..N-1, skipping shard_idx" after shard i
NextProbe(shard_idx, i) ==
    IF \E j \in Shards : j # shard_idx /\ j > i
    THEN MinOf({j \in Shards : j # shard_idx /\ j > i})
    ELSE NoShard

\* contains / get that keep the mutex of a probed shard while they go on to the
\* next shard, and release every mutex they hold when they return
probe_locked_KeepLock(t) ==
    LET i == thr[t].idx
        shard_idx == IF thr[t].first = NoShard THEN i ELSE thr[t].first
        next == IF thr[t].first = NoShard THEN NextProbe(shard_idx, -1)
                ELSE NextProbe(shard_idx, i)
    IN /\ thr[t].pc = "locked"
       /\ thr[t].op = "lookup"
       /\ IF TreeContains(shards_[i], thr[t].key) \/ next = NoShard
          THEN /\ thr' = [thr EXCEPT ![t] = Idle]
               /\ lock' = [s \in Shards |-> IF lock[s] = t THEN NoThread ELSE lock[s]]
          ELSE /\ thr' = [thr EXCEPT ![t].pc = "wait", ![t].idx = next, ![t].first = shard_idx]
               /\ UNCHANGED lock
       /\ UNCHANGED <<store_vars, tree_vars, barrier, index_vars, fn_vars, ext_vars>>

\* AVLTreeAdaptive::contains / get under a shard mutex: return on a hit, else
\* go on to the next shard of the scan
probe_locked(t) ==
    LET i == thr[t].idx
        shard_idx == IF thr[t].first = NoShard THEN i ELSE thr[t].first
        next == IF thr[t].first = NoShard THEN NextProbe(shard_idx, -1)
                ELSE NextProbe(shard_idx, i)
    IN /\ thr[t].pc = "locked"
       /\ thr[t].op = "lookup"
       /\ lock' = [lock EXCEPT ![i] = NoThread]
       /\ IF TreeContains(shards_[i], thr[t].key) \/ next = NoShard
          THEN thr' = [thr EXCEPT ![t] = Idle]
          ELSE thr' = [thr EXCEPT ![t].pc = "wait", ![t].idx = next, ![t].first = shard_idx]
       /\ UNCHANGED <<store_vars, tree_vars, barrier, index_vars, fn_vars, ext_vars>>

\* a step of thread t
ThreadStep(t) ==
    \/ \E k \in Keys : insert_route(t, k, MaxVal)
    \/ \E k \in Keys : remove_begin(t, k)
    \/ \E k \in Keys : lookup_route(t, k)
    \/ acquire(t)
    \/ insert_locked(t)
    \/ remove_locked(t)
    \/ probe_locked(t)

NextThreads == \E t \in Threads : ThreadStep(t)

SpecThreads == Init /\ [][NextThreads]_vars

\* rebalance, step 1: take the global barrier exclusively
rebalance_begin ==
    /\ barrier = "free"
    /\ barrier' = "exclusive"
    /\ UNCHANGED <<store_vars, tree_vars, thr, lock, index_vars, fn_vars, ext_vars>>

\* rebalance, steps 2 to 5: migrate, reconcile, release the barrier
rebalance_end(ratio) ==
    /\ barrier = "exclusive"
    /\ Migrate(ratio)
    /\ barrier' = "free"
    /\ UNCHANGED <<tree_vars, thr, lock, index_vars, fn_vars, ext_vars>>

\* one client thread next to the thread that runs rebalance
NextBarrier ==
    \/ ThreadStep(1)
    \/ rebalance_begin
    \/ \E r \in Ratios : rebalance_end(r)

\* a default-constructed store (strategy INTELLIGENT)
InitBarrier ==
    /\ Init
    /\ routing_strategy_ = "INTELLIGENT"

SpecBarrier == InitBarrier /\ [][NextBarrier]_vars

\* ------------------------------------- single-shard map: the operations
\* an insert that counts every call, also one that overwrote a value
tree_insert_AlwaysCount(key, value) ==
    LET r == insertRec(root_, key, value) IN
    /\ root_' = r.node
    /\ size_' = size_ + 1
    /\ entries' = [entries EXCEPT ![key] = value]
    /\ outcome' = IF r.inserted THEN "inserted" ELSE "overwritten"
    /\ UNCHANGED <<store_vars, thread_vars, index_vars, fn_vars, ext_vars>>

\* AVLTreeConcurrent::insert
tree_insert(key, value) ==
    LET r == insertRec(root_, key, value) IN
    /\ root_' = r.node
    /\ size_' = IF r.inserted THEN size_ + 1 ELSE size_
    /\ entries' = [entries EXCEPT ![key] = value]
    /\ outcome' = IF r.inserted THEN "inserted" ELSE "overwritten"
    /\ UNCHANGED <<store_vars, thread_vars, index_vars, fn_vars, ext_vars>>

\* AVLTreeConcurrent::remove
tree_remove(key) ==
    LET r == removeRec(root_, key) IN
    /\ root_' = r.node
    /\ size_' = IF r.removed THEN size_ - 1 ELSE size_
    /\ entries' = [entries EXCEPT ![key] = NoVal]
    /\ outcome' = IF ~r.removed THEN "absent"
                  ELSE IF HasTwoChildren(root_, key) THEN "removed_two_children"
                  ELSE "removed"
    /\ UNCHANGED <<store_vars, thread_vars, index_vars, fn_vars, ext_vars>>

\* AVLTreeConcurrent::clear
clear ==
    /\ root_' = Nil
    /\ size_' = 0
    /\ entries' = [k \in TreeKeys |-> NoVal]
    /\ outcome' = "none"
    /\ UNCHANGED <<store_vars, thread_vars, index_vars, fn_vars, ext_vars>>

\* AVLTreeConcurrent::contains
tree_contains(key) ==
    /\ containsRec(root_, key) \in BOOLEAN
    /\ UNCHANGED vars

\* AVLTreeConcurrent::get
tree_get(key) ==
    /\ getRec(root_, key) \in Vals \cup {NotFound}
    /\ UNCHANGED vars

\* AVLTreeConcurrent::size
tree_size ==
    /\ size_ \in Nat
    /\ UNCHANGED vars

\* AVLTreeConcurrent::minKey
minKey ==
    /\ MinKeyOf(root_) \in TreeKeys \cup {EmptyError}
    /\ UNCHANGED vars

\* AVLTreeConcurrent::maxKey
maxKey ==
    /\ MaxKeyOf(root_) \in TreeKeys \cup {EmptyError}
    /\ UNCHANGED vars

\* a default-constructed store next to an empty single-shard map
InitTree ==
    /\ Init
    /\ routing_strategy_ = "INTELLIGENT"

NextTree ==
    \/ \E k \in TreeKeys, v \in Vals : tree_insert(k, v)
    \/ \E k \in TreeKeys : tree_remove(k)
    \/ clear
    \/ \E k \in TreeKeys : tree_contains(k)
    \/ \E k \in TreeKeys : tree_get(k)
    \/ tree_size
    \/ minKey
    \/ maxKey

SpecTree == InitTree /\ [][NextTree]_vars

\* ------------------------------------------- a RedirectIndex on its own
\* The index as an object of its own, as the tests drive it: every method is
\* one action (each holds the index mutex for the whole of its body).
MaxStat == 3

\* the functions handed to gc_expired: any assignment of a natural shard to the keys
NaturalFns == [Keys -> Shards]

\* RedirectIndex::record_redirect
index_record_redirect(key, natural_shard, actual_shard) ==
    /\ index.total_redirects_ < MaxStat
    /\ index' = [index EXCEPT
                    !.redirects_ = record_redirect(@, key, natural_shard, actual_shard),
                    !.total_redirects_ = IF natural_shard = actual_shard THEN @ ELSE @ + 1]
    /\ index_ret' = [op |-> "record_redirect", value |-> NoShard]
    /\ UNCHANGED <<store_vars, tree_vars, thread_vars, fn_vars, ext_vars>>

\* RedirectIndex::lookup: the recorded shard, NoShard for std::nullopt
index_lookup(key) ==
    /\ index.lookups_ < MaxStat
    /\ index' = [index EXCEPT
                    !.lookups_ = @ + 1,
                    !.hits_ = IF index.redirects_[key] # NoShard THEN @ + 1 ELSE @]
    /\ index_ret' = [op |-> "lookup", value |-> index.redirects_[key]]
    /\ UNCHANGED <<store_vars, tree_vars, thread_vars, fn_vars, ext_vars>>

\* RedirectIndex::remove
index_remove(key) ==
    /\ index' = [index EXCEPT !.redirects_ = redirect_remove(@, key)]
    /\ index_ret' = [op |-> "remove", value |-> NoShard]
    /\ UNCHANGED <<store_vars, tree_vars, thread_vars, fn_vars, ext_vars>>

\* RedirectIndex::clear
index_clear ==
    /\ index' = EmptyIndex
    /\ index_ret' = [op |-> "clear", value |-> NoShard]
    /\ UNCHANGED <<store_vars, tree_vars, thread_vars, fn_vars, ext_vars>>

\* RedirectIndex::get_stats: index_size
index_get_stats ==
    /\ index_ret' = [op |-> "get_stats",
                     value |-> Cardinality({k \in Keys : index.redirects_[k] # NoShard})]
    /\ UNCHANGED <<index, store_vars, tree_vars, thread_vars, fn_vars, ext_vars>>

index_gc_expired(f) ==
    LET r == gc_expired_by(index.redirects_, f) IN
    /\ index' = [index EXCEPT !.redirects_ = r.redirects]
    /\ index_ret' = [op |-> "gc_expired", value |-> r.removed]
    /\ UNCHANGED <<store_vars, tree_vars, thread_vars, fn_vars, ext_vars>>

NextIndex ==
    \/ \E k \in Keys, n \in Shards, a \in Shards : index_record_redirect(k, n, a)
    \/ \E k \in Keys : index_lookup(k)
    \/ \E k \in Keys : index_remove(k)
    \/ index_clear
    \/ index_get_stats
    \/ \E f \in NaturalFns : index_gc_expired(f)

\* a default-constructed store next to an empty index
InitIndex ==
    /\ Init
    /\ routing_strategy_ = "INTELLIGENT"

SpecIndex == InitIndex /\ [][NextIndex]_vars

\* ------------------------------- the functional tree (AVLTreeFunctional)
\* The nodes live in heap, a sequence indexed by address; a node is never
\* written after it has been allocated, every operation allocates the nodes it
\* builds.  Two trees, t (tree 1) and s (tree 2), hold a root address each and
\* may share nodes.
MaxFnKey == 2
FnKeys == 0..MaxFnKey

\* Node::getHeight
fn_height(h, node) == IF node = nullptr THEN 0 ELSE h[node].height

\* Node::balanceFactor
fn_balanceFactor(h, node) ==
    IF node = nullptr THEN 0
    ELSE fn_height(h, h[node].right) - fn_height(h, h[node].left)

\* makeNode / Node(k, v, l, r): allocates a node, returns the heap and its address
makeNode(h, key, value, left, right) ==
    [h |-> Append(h, [key |-> key, value |-> value, left |-> left, right |-> right,
                      height |-> 1 + Max2(fn_height(h, left), fn_height(h, right))]),
     p |-> Len(h) + 1]

\* Node(other, new_left, new_right): a copy of other with new children
copyNode(h, other, new_left, new_right) ==
    makeNode(h, h[other].key, h[other].value, new_left, new_right)

fn_rotateLeft(h, x) ==
    IF x = nullptr \/ h[x].right = nullptr THEN [h |-> h, p |-> x]
    ELSE LET y == h[x].right
             B == h[y].left
             new_x == copyNode(h, x, h[x].left, B)
         IN copyNode(new_x.h, y, new_x.p, h[y].right)

fn_rotateRight(h, x) ==
    IF x = nullptr \/ h[x].left = nullptr THEN [h |-> h, p |-> x]
    ELSE LET y == h[x].left
             B == h[y].right
             new_x == copyNode(h, x, B, h[x].right)
         IN copyNode(new_x.h, y, h[y].left, new_x.p)

fn_rebalance(h, node) ==
    IF node = nullptr THEN [h |-> h, p |-> nullptr]
    ELSE LET bf == fn_balanceFactor(h, node) IN
         IF bf < -1
         THEN LET left == h[node].left IN
              IF fn_balanceFactor(h, left) > 0
              THEN LET new_left == fn_rotateLeft(h, left)
                       new_node == copyNode(new_left.h, node, new_left.p, h[node].right)
                   IN fn_rotateRight(new_node.h, new_node.p)
              ELSE fn_rotateRight(h, node)
         ELSE IF bf > 1
         THEN LET right == h[node].right IN
              IF fn_balanceFactor(h, right) < 0
              THEN LET new_right == fn_rotateRight(h, right)
                       new_node == copyNode(new_right.h, node, h[node].left, new_right.p)
                   IN fn_rotateLeft(new_node.h, new_node.p)
              ELSE fn_rotateLeft(h, node)
         ELSE [h |-> h, p |-> node]

\* an insertRec that overwrites the value of an existing key in the node itself
RECURSIVE fn_insertRec_InPlace(_, _, _, _)
fn_insertRec_InPlace(h, node, key, value) ==
    IF node = nullptr
    THEN LET n == makeNode(h, key, value, nullptr, nullptr)
         IN [h |-> n.h, p |-> n.p, inserted |-> TRUE]
    ELSE IF key < h[node].key
    THEN LET new_left == fn_insertRec_InPlace(h, h[node].left, key, value)
             new_node == copyNode(new_left.h, node, new_left.p, h[node].right)
             r == fn_rebalance(new_node.h, new_node.p)
         IN [h |-> r.h, p |-> r.p, inserted |-> new_left.inserted]
    ELSE IF h[node].key < key
    THEN LET new_right == fn_insertRec_InPlace(h, h[node].right, key, value)
             new_node == copyNode(new_right.h, node, h[node].left, new_right.p)
             r == fn_rebalance(new_node.h, new_node.p)
         IN [h |-> r.h, p |-> r.p, inserted |-> new_right.inserted]
    ELSE [h |-> [h EXCEPT ![node].value = value], p |-> node, inserted |-> FALSE]

\* AVLTreeFunctional::insertRec: the heap, the new root and the flag inserted
RECURSIVE fn_insertRec(_, _, _, _)
fn_insertRec(h, node, key, value) ==
    IF node = nullptr
    THEN LET n == makeNode(h, key, value, nullptr, nullptr)
         IN [h |-> n.h, p |-> n.p, inserted |-> TRUE]
    ELSE IF key < h[node].key
    THEN LET new_left == fn_insertRec(h, h[node].left, key, value)
             new_node == copyNode(new_left.h, node, new_left.p, h[node].right)
             r == fn_rebalance(new_node.h, new_node.p)
         IN [h |-> r.h, p |-> r.p, inserted |-> new_left.inserted]
    ELSE IF h[node].key < key
    THEN LET new_right == fn_insertRec(h, h[node].right, key, value)
             new_node == copyNode(new_right.h, node, h[node].left, new_right.p)
             r == fn_rebalance(new_node.h, new_node.p)
         IN [h |-> r.h, p |-> r.p, inserted |-> new_right.inserted]
    ELSE LET n == makeNode(h, key, value, h[node].left, h[node].right)
         IN [h |-> n.h, p |-> n.p, inserted |-> FALSE]

RECURSIVE fn_findMin(_, _)
fn_findMin(h, node) ==
    IF node = nullptr THEN nullptr
    ELSE IF h[node].left # nullptr THEN fn_findMin(h, h[node].left)
    ELSE node

\* AVLTreeFunctional::removeRec: the heap, the new root and the flag removed
RECURSIVE fn_removeRec(_, _, _)
fn_removeRec(h, node, key) ==
    IF node = nullptr THEN [h |-> h, p |-> nullptr, removed |-> FALSE]
    ELSE IF key < h[node].key
    THEN LET new_left == fn_removeRec(h, h[node].left, key) IN
         IF ~new_left.removed THEN [h |-> new_left.h, p |-> node, removed |-> FALSE]
         ELSE LET new_node == copyNode(new_left.h, node, new_left.p, h[node].right)
                  r == fn_rebalance(new_node.h, new_node.p)
              IN [h |-> r.h, p |-> r.p, removed |-> TRUE]
    ELSE IF h[node].key < key
    THEN LET new_right == fn_removeRec(h, h[node].right, key) IN
         IF ~new_right.removed THEN [h |-> new_right.h, p |-> node, removed |-> FALSE]
         ELSE LET new_node == copyNode(new_right.h, node, h[node].left, new_right.p)
                  r == fn_rebalance(new_node.h, new_node.p)
              IN [h |-> r.h, p |-> r.p, removed |-> TRUE]
    ELSE IF h[node].left = nullptr THEN [h |-> h, p |-> h[node].right, removed |-> TRUE]
    ELSE IF h[node].right = nullptr THEN [h |-> h, p |-> h[node].left, removed |-> TRUE]
    ELSE LET successor == fn_findMin(h, h[node].right)
             new_right == fn_removeRec(h, h[node].right, h[successor].key)
             new_node == makeNode(new_right.h, h[successor].key, h[successor].value,
                                  h[node].left, new_right.p)
             r == fn_rebalance(new_node.h, new_node.p)
         IN [h |-> r.h, p |-> r.p, removed |-> TRUE]

\* AVLTreeFunctional::findNode
RECURSIVE fn_findNode(_, _, _)
fn_findNode(h, node, key) ==
    IF node = nullptr THEN nullptr
    ELSE IF key = h[node].key THEN node
    ELSE IF key < h[node].key THEN fn_findNode(h, h[node].left, key)
    ELSE fn_findNode(h, h[node].right, key)

\* what contains and get of a tree with the given root answer
fn_containsOf(h, root, key) == fn_findNode(h, root, key) # nullptr

fn_getOf(h, root, key) ==
    LET node == fn_findNode(h, root, key) IN
    IF node = nullptr THEN NotFound ELSE h[node].value

\* std::shared_ptr: a node is freed when no root reaches it any more.  The
\* nodes that remain are listed root by root, parent before children, and take
\* their place in that list as address.
RECURSIVE Reach(_, _)
Reach(h, node) ==
    IF node = nullptr THEN <<>>
    ELSE <<node>> \o Reach(h, h[node].left) \o Reach(h, h[node].right)

RECURSIVE Distinct(_, _)
Distinct(seq, seen) ==
    IF seq = <<>> THEN <<>>
    ELSE IF Head(seq) \in seen THEN Distinct(Tail(seq), seen)
    ELSE <<Head(seq)>> \o Distinct(Tail(seq), seen \cup {Head(seq)})

Release(h, roots) ==
    LET alive == Distinct(Reach(h, roots[1]) \o Reach(h, roots[2]), {})
        addr(node) == IF node = nullptr THEN nullptr
                      ELSE CHOOSE i \in 1..Len(alive) : alive[i] = node
    IN [h |-> [i \in 1..Len(alive) |->
                  [h[alive[i]] EXCEPT !.left = addr(@), !.right = addr(@)]],
        roots |-> [i \in Trees |-> addr(roots[i])]]

\* AVLTreeFunctional::insert on tree i
fn_insert(i, key, value) ==
    LET r == fn_insertRec(heap, fn_root[i], key, value)
        c == Release(r.h, [fn_root EXCEPT ![i] = r.p])
    IN /\ heap' = c.h
       /\ fn_root' = c.roots
       /\ fn_size' = [fn_size EXCEPT ![i] = IF r.inserted THEN @ + 1 ELSE @]
       /\ fn_op' = [op |-> "insert", tree |-> i]
       /\ UNCHANGED <<store_vars, tree_vars, thread_vars, index_vars, ext_vars>>

\* AVLTreeFunctional::remove on tree i
fn_remove(i, key) ==
    LET r == fn_removeRec(heap, fn_root[i], key)
        c == Release(r.h, [fn_root EXCEPT ![i] = r.p])
    IN /\ heap' = c.h
       /\ fn_root' = c.roots
       /\ fn_size' = [fn_size EXCEPT ![i] = IF r.removed THEN @ - 1 ELSE @]
       /\ fn_op' = [op |-> "remove", tree |-> i]
       /\ UNCHANGED <<store_vars, tree_vars, thread_vars, index_vars, ext_vars>>

\* tree j = tree i .snapshot(): the copy constructor shares root_ and copies size_
snapshot(i, j) ==
    LET c == Release(heap, [fn_root EXCEPT ![j] = fn_root[i]])
    IN /\ i # j
       /\ heap' = c.h
       /\ fn_root' = c.roots
       /\ fn_size' = [fn_size EXCEPT ![j] = fn_size[i]]
       /\ fn_op' = [op |-> "snapshot", tree |-> j]
       /\ UNCHANGED <<store_vars, tree_vars, thread_vars, index_vars, ext_vars>>

\* AVLTreeFunctional::clear on tree i
fn_clear(i) ==
    LET c == Release(heap, [fn_root EXCEPT ![i] = nullptr])
    IN /\ heap' = c.h
       /\ fn_root' = c.roots
       /\ fn_size' = [fn_size EXCEPT ![i] = 0]
       /\ fn_op' = [op |-> "clear", tree |-> i]
       /\ UNCHANGED <<store_vars, tree_vars, thread_vars, index_vars, ext_vars>>

\* AVLTreeFunctional::contains on tree i
fn_contains(i, key) ==
    /\ fn_containsOf(heap, fn_root[i], key) \in BOOLEAN
    /\ UNCHANGED vars

\* AVLTreeFunctional::get on tree i
fn_get(i, key) ==
    /\ fn_getOf(heap, fn_root[i], key) \in Vals \cup {NotFound}
    /\ UNCHANGED vars

NextFunctional ==
    \/ \E i \in Trees, k \in FnKeys, v \in Vals : fn_insert(i, k, v)
    \/ \E i \in Trees, k \in FnKeys : fn_remove(i, k)
    \/ \E i \in Trees, j \in Trees : snapshot(i, j)
    \/ \E i \in Trees : fn_clear(i)
    \/ \E i \in Trees, k \in FnKeys : fn_contains(i, k)
    \/ \E i \in Trees, k \in FnKeys : fn_get(i, k)

\* a default-constructed store next to two empty functional trees
InitFunctional ==
    /\ Init
    /\ routing_strategy_ = "INTELLIGENT"

SpecFunctional == InitFunctional /\ [][NextFunctional]_vars

\* --------------------------------------------- AVLTreeDOD (arrays of slots)
MaxDodKey == 3
DodKeys == 1..MaxDodKey

\* AVLTreeDOD::allocateNode: the slot taken and the arrays afterwards
dod_allocateNode(d, key, value) ==
    IF d.free_list_ # <<>>
    THEN LET idx == d.free_list_[Len(d.free_list_)] IN
         [d |-> [d EXCEPT !.free_list_ = SubSeq(@, 1, Len(@) - 1),
                          !.keys_[idx] = key,
                          !.values_[idx] = value,
                          !.left_[idx] = INVALID,
                          !.right_[idx] = INVALID,
                          !.height_[idx] = 1],
          idx |-> idx]
    ELSE [d |-> [d EXCEPT !.keys_ = Append(@, key),
                          !.values_ = Append(@, value),
                          !.left_ = Append(@, INVALID),
                          !.right_ = Append(@, INVALID),
                          !.height_ = Append(@, 1)],
          idx |-> Len(d.keys_) + 1]

\* AVLTreeDOD::freeNode
dod_freeNode(d, idx) == [d EXCEPT !.free_list_ = Append(@, idx)]

dod_getHeight(d, idx) == IF idx # INVALID THEN d.height_[idx] ELSE 0

dod_getBalance(d, idx) ==
    IF idx # INVALID
    THEN dod_getHeight(d, d.right_[idx]) - dod_getHeight(d, d.left_[idx])
    ELSE 0

dod_updateHeight(d, idx) ==
    IF idx # INVALID
    THEN [d EXCEPT !.height_[idx] =
              1 + Max2(dod_getHeight(d, d.left_[idx]), dod_getHeight(d, d.right_[idx]))]
    ELSE d

\* AVLTreeDOD::findNode
RECURSIVE dod_findFrom(_, _, _)
dod_findFrom(d, cur, key) ==
    IF cur = INVALID THEN INVALID
    ELSE IF key = d.keys_[cur] THEN cur
    ELSE dod_findFrom(d, IF key < d.keys_[cur] THEN d.left_[cur] ELSE d.right_[cur], key)

dod_findNode(d, key) == dod_findFrom(d, d.root_, key)

\* the link of parent that a rotation redirects to the new subtree root
dod_setParentLink(d, parent, isLeftChild, y) ==
    IF parent = INVALID THEN [d EXCEPT !.root_ = y]
    ELSE IF isLeftChild THEN [d EXCEPT !.left_[parent] = y]
    ELSE [d EXCEPT !.right_[parent] = y]

\* AVLTreeDOD::rotateLeft
dod_rotateLeft(d, x, parent, isLeftChild) ==
    LET y == d.right_[x]
        B == d.left_[y]
        d1 == [d EXCEPT !.left_[y] = x, !.right_[x] = B]
        d2 == dod_updateHeight(dod_updateHeight(d1, x), y)
    IN [d |-> dod_setParentLink(d2, parent, isLeftChild, y), idx |-> y]

\* AVLTreeDOD::rotateRight
dod_rotateRight(d, x, parent, isLeftChild) ==
    LET y == d.left_[x]
        B == d.right_[y]
        d1 == [d EXCEPT !.right_[y] = x, !.left_[x] = B]
        d2 == dod_updateHeight(dod_updateHeight(d1, x), y)
    IN [d |-> dod_setParentLink(d2, parent, isLeftChild, y), idx |-> y]

\* AVLTreeDOD::rebalance
dod_rebalance(d, idx, parent, isLeftChild) ==
    IF idx = INVALID THEN [d |-> d, idx |-> INVALID]
    ELSE LET d1 == dod_updateHeight(d, idx)
             balance == dod_getBalance(d1, idx)
         IN IF balance < -1
            THEN LET leftChild == d1.left_[idx]
                     d2 == IF dod_getBalance(d1, leftChild) > 0
                           THEN LET r == dod_rotateLeft(d1, leftChild, idx, TRUE)
                                IN [r.d EXCEPT !.left_[idx] = r.idx]
                           ELSE d1
                 IN dod_rotateRight(d2, idx, parent, isLeftChild)
            ELSE IF balance > 1
            THEN LET rightChild == d1.right_[idx]
                     d2 == IF dod_getBalance(d1, rightChild) < 0
                           THEN LET r == dod_rotateRight(d1, rightChild, idx, FALSE)
                                IN [r.d EXCEPT !.right_[idx] = r.idx]
                           ELSE d1
                 IN dod_rotateLeft(d2, idx, parent, isLeftChild)
            ELSE [d |-> d1, idx |-> idx]

\* an insertRec that leaves the value of a key already present as it was
RECURSIVE dod_insertRec_KeepValue(_, _, _, _, _, _)
dod_insertRec_KeepValue(d, node, key, value, parent, isLeftChild) ==
    IF node = INVALID
    THEN LET a == dod_allocateNode(d, key, value)
         IN [d |-> a.d, idx |-> a.idx, inserted |-> TRUE]
    ELSE IF key < d.keys_[node]
    THEN LET r == dod_insertRec_KeepValue(d, d.left_[node], key, value, node, TRUE)
             b == dod_rebalance([r.d EXCEPT !.left_[node] = r.idx], node, parent, isLeftChild)
         IN [d |-> b.d, idx |-> b.idx, inserted |-> r.inserted]
    ELSE IF d.keys_[node] < key
    THEN LET r == dod_insertRec_KeepValue(d, d.right_[node], key, value, node, FALSE)
             b == dod_rebalance([r.d EXCEPT !.right_[node] = r.idx], node, parent, isLeftChild)
         IN [d |-> b.d, idx |-> b.idx, inserted |-> r.inserted]
    ELSE [d |-> d, idx |-> node, inserted |-> FALSE]

\* AVLTreeDOD::insertRec: the arrays afterwards, the subtree's root, and
\* whether a slot was taken
RECURSIVE dod_insertRec(_, _, _, _, _, _)
dod_insertRec(d, node, key, value, parent, isLeftChild) ==
    IF node = INVALID
    THEN LET a == dod_allocateNode(d, key, value)
         IN [d |-> a.d, idx |-> a.idx, inserted |-> TRUE]
    ELSE IF key < d.keys_[node]
    THEN LET r == dod_insertRec(d, d.left_[node], key, value, node, TRUE)
             b == dod_rebalance([r.d EXCEPT !.left_[node] = r.idx], node, parent, isLeftChild)
         IN [d |-> b.d, idx |-> b.idx, inserted |-> r.inserted]
    ELSE IF d.keys_[node] < key
    THEN LET r == dod_insertRec(d, d.right_[node], key, value, node, FALSE)
             b == dod_rebalance([r.d EXCEPT !.right_[node] = r.idx], node, parent, isLeftChild)
         IN [d |-> b.d, idx |-> b.idx, inserted |-> r.inserted]
    ELSE [d |-> [d EXCEPT !.values_[node] = value], idx |-> node, inserted |-> FALSE]

\* AVLTreeDOD::findMin and findMax
RECURSIVE dod_findMin(_, _)
dod_findMin(d, node) ==
    IF node # INVALID /\ d.left_[node] # INVALID THEN dod_findMin(d, d.left_[node]) ELSE node

RECURSIVE dod_findMax(_, _)
dod_findMax(d, node) ==
    IF node # INVALID /\ d.right_[node] # INVALID THEN dod_findMax(d, d.right_[node]) ELSE node

\* a removeRec that unlinks the slot without handing it to the free list
RECURSIVE dod_removeRec_Leak(_, _, _, _, _)
dod_removeRec_Leak(d, node, key, parent, isLeftChild) ==
    IF node = INVALID THEN [d |-> d, idx |-> INVALID, removed |-> FALSE]
    ELSE IF key < d.keys_[node]
    THEN LET r == dod_removeRec_Leak(d, d.left_[node], key, node, TRUE)
             b == dod_rebalance([r.d EXCEPT !.left_[node] = r.idx], node, parent, isLeftChild)
         IN [d |-> b.d, idx |-> b.idx, removed |-> r.removed]
    ELSE IF d.keys_[node] < key
    THEN LET r == dod_removeRec_Leak(d, d.right_[node], key, node, FALSE)
             b == dod_rebalance([r.d EXCEPT !.right_[node] = r.idx], node, parent, isLeftChild)
         IN [d |-> b.d, idx |-> b.idx, removed |-> r.removed]
    ELSE IF d.left_[node] = INVALID
    THEN [d |-> d, idx |-> d.right_[node], removed |-> TRUE]
    ELSE IF d.right_[node] = INVALID
    THEN [d |-> d, idx |-> d.left_[node], removed |-> TRUE]
    ELSE LET successor == dod_findMin(d, d.right_[node])
             d1 == [d EXCEPT !.keys_[node] = d.keys_[successor],
                             !.values_[node] = d.values_[successor]]
             r == dod_removeRec_Leak(d1, d1.right_[node], d1.keys_[successor], node, FALSE)
             b == dod_rebalance([r.d EXCEPT !.right_[node] = r.idx], node, parent, isLeftChild)
         IN [d |-> b.d, idx |-> b.idx, removed |-> r.removed]

\* AVLTreeDOD::removeRec: the arrays afterwards, the subtree's root, and
\* whether a slot was given back
RECURSIVE dod_removeRec(_, _, _, _, _)
dod_removeRec(d, node, key, parent, isLeftChild) ==
    IF node = INVALID THEN [d |-> d, idx |-> INVALID, removed |-> FALSE]
    ELSE IF key < d.keys_[node]
    THEN LET r == dod_removeRec(d, d.left_[node], key, node, TRUE)
             b == dod_rebalance([r.d EXCEPT !.left_[node] = r.idx], node, parent, isLeftChild)
         IN [d |-> b.d, idx |-> b.idx, removed |-> r.removed]
    ELSE IF d.keys_[node] < key
    THEN LET r == dod_removeRec(d, d.right_[node], key, node, FALSE)
             b == dod_rebalance([r.d EXCEPT !.right_[node] = r.idx], node, parent, isLeftChild)
         IN [d |-> b.d, idx |-> b.idx, removed |-> r.removed]
    ELSE IF d.left_[node] = INVALID
    THEN [d |-> dod_freeNode(d, node), idx |-> d.right_[node], removed |-> TRUE]
    ELSE IF d.right_[node] = INVALID
    THEN [d |-> dod_freeNode(d, node), idx |-> d.left_[node], removed |-> TRUE]
    ELSE LET successor == dod_findMin(d, d.right_[node])
             d1 == [d EXCEPT !.keys_[node] = d.keys_[successor],
                             !.values_[node] = d.values_[successor]]
             r == dod_removeRec(d1, d1.right_[node], d1.keys_[successor], node, FALSE)
             b == dod_rebalance([r.d EXCEPT !.right_[node] = r.idx], node, parent, isLeftChild)
         IN [d |-> b.d, idx |-> b.idx, removed |-> r.removed]

\* AVLTreeDOD::destroyRec
RECURSIVE dod_destroyRec(_, _)
dod_destroyRec(d, node) ==
    IF node = INVALID THEN d
    ELSE dod_freeNode(dod_destroyRec(dod_destroyRec(d, d.left_[node]), d.right_[node]), node)

\* the map after AVLTreeDOD::insert, remove and clear
dod_insertOf(d, key, value) ==
    LET r == dod_insertRec(d, d.root_, key, value, INVALID, FALSE)
    IN [r.d EXCEPT !.root_ = r.idx, !.size_ = IF r.inserted THEN @ + 1 ELSE @]

dod_removeOf(d, key) ==
    LET r == dod_removeRec(d, d.root_, key, INVALID, FALSE)
    IN [r.d EXCEPT !.root_ = r.idx, !.size_ = IF r.removed THEN @ - 1 ELSE @]

dod_clearOf(d) == [dod_destroyRec(d, d.root_) EXCEPT !.root_ = INVALID, !.size_ = 0]

\* an array element read at idx: the element when idx names a slot; when idx
\* is INVALID the read is outside the array, and yields any value or a fault
ReadAt(array, idx, range) ==
    IF idx # INVALID THEN {array[idx]} ELSE range \cup {Crash}

\* what contains, get, minKey and maxKey can return
dod_containsOf(d, key) == dod_findNode(d, key) # INVALID
dod_getOf(d, key) == ReadAt(d.values_, dod_findNode(d, key), Vals)
dod_minKeyOf(d) == ReadAt(d.keys_, dod_findMin(d, d.root_), DodKeys)
dod_maxKeyOf(d) == ReadAt(d.keys_, dod_findMax(d, d.root_), DodKeys)

\* AVLTreeDOD::insert
dod_insert(key, value) ==
    /\ dod' = dod_insertOf(dod, key, value)
    /\ dod_ret' = [op |-> "insert", key |-> key, idx |-> dod_findNode(dod, key), value |-> value]
    /\ UNCHANGED <<store_vars, tree_vars, thread_vars, index_vars, fn_vars, not_dod>>

\* AVLTreeDOD::remove
dod_remove(key) ==
    /\ dod' = dod_removeOf(dod, key)
    /\ dod_ret' = [op |-> "remove", key |-> key, idx |-> dod_findNode(dod, key), value |-> NoVal]
    /\ UNCHANGED <<store_vars, tree_vars, thread_vars, index_vars, fn_vars, not_dod>>

\* AVLTreeDOD::clear
dod_clear ==
    /\ dod' = dod_clearOf(dod)
    /\ dod_ret' = [op |-> "clear", key |-> 0, idx |-> dod.root_, value |-> NoVal]
    /\ UNCHANGED <<store_vars, tree_vars, thread_vars, index_vars, fn_vars, not_dod>>

\* AVLTreeDOD::contains
dod_contains(key) ==
    /\ dod_containsOf(dod, key) \in BOOLEAN
    /\ UNCHANGED vars

\* AVLTreeDOD::size
dod_size ==
    /\ dod.size_ \in Nat
    /\ UNCHANGED vars

\* AVLTreeDOD::get
dod_get(key) ==
    /\ \E v \in dod_getOf(dod, key) :
          dod_ret' = [op |-> "get", key |-> key, idx |-> dod_findNode(dod, key), value |-> v]
    /\ UNCHANGED <<dod, store_vars, tree_vars, thread_vars, index_vars, fn_vars, not_dod>>

\* AVLTreeDOD::minKey
dod_minKey ==
    /\ \E k \in dod_minKeyOf(dod) :
          dod_ret' = [op |-> "minKey", key |-> 0, idx |-> dod_findMin(dod, dod.root_), value |-> k]
    /\ UNCHANGED <<dod, store_vars, tree_vars, thread_vars, index_vars, fn_vars, not_dod>>

\* AVLTreeDOD::maxKey
dod_maxKey ==
    /\ \E k \in dod_maxKeyOf(dod) :
          dod_ret' = [op |-> "maxKey", key |-> 0, idx |-> dod_findMax(dod, dod.root_), value |-> k]
    /\ UNCHANGED <<dod, store_vars, tree_vars, thread_vars, index_vars, fn_vars, not_dod>>

NextDOD ==
    \/ \E k \in DodKeys, v \in Vals : dod_insert(k, v)
    \/ \E k \in DodKeys : dod_remove(k)
    \/ dod_clear
    \/ \E k \in DodKeys : dod_contains(k)
    \/ dod_size
    \/ \E k \in DodKeys : dod_get(k)
    \/ dod_minKey
    \/ dod_maxKey

\* a default-constructed store next to an empty AVLTreeDOD
InitDOD ==
    /\ Init
    /\ routing_strategy_ = "INTELLIGENT"

SpecDOD == InitDOD /\ [][NextDOD]_vars

\* ------------------------- the three maps driven by one sequence of calls
RECURSIVE fn_findMax(_, _)
fn_findMax(h, node) ==
    IF node = nullptr THEN nullptr
    ELSE IF h[node].right # nullptr THEN fn_findMax(h, h[node].right)
    ELSE node

\* AVLTreeFunctional::minKey and maxKey of a tree with the given root
fn_minKeyOf(h, root) == IF fn_findMin(h, root) = nullptr THEN EmptyError ELSE h[fn_findMin(h, root)].key
fn_maxKeyOf(h, root) == IF fn_findMax(h, root) = nullptr THEN EmptyError ELSE h[fn_findMax(h, root)].key

\* insert(key, value) on the AVLTreeConcurrent, on functional tree 1 and on
\* the AVLTreeDOD
par_insert(key, value) ==
    LET r == insertRec(root_, key, value)
        f == fn_insertRec(heap, fn_root[1], key, value)
        c == Release(f.h, [fn_root EXCEPT ![1] = f.p])
    IN /\ root_' = r.node
       /\ size_' = IF r.inserted THEN size_ + 1 ELSE size_
       /\ entries' = [entries EXCEPT ![key] = value]
       /\ outcome' = IF r.inserted THEN "inserted" ELSE "overwritten"
       /\ heap' = c.h
       /\ fn_root' = c.roots
       /\ fn_size' = [fn_size EXCEPT ![1] = IF f.inserted THEN @ + 1 ELSE @]
       /\ fn_op' = [op |-> "insert", tree |-> 1]
       /\ dod' = dod_insertOf(dod, key, value)
       /\ dod_ret' = [op |-> "insert", key |-> key, idx |-> dod_findNode(dod, key), value |-> value]
       /\ UNCHANGED <<store_vars, thread_vars, index_vars, not_dod>>

\* remove(key) on the three maps
par_remove(key) ==
    LET r == removeRec(root_, key)
        f == fn_removeRec(heap, fn_root[1], key)
        c == Release(f.h, [fn_root EXCEPT ![1] = f.p])
    IN /\ root_' = r.node
       /\ size_' = IF r.removed THEN size_ - 1 ELSE size_
       /\ entries' = [entries EXCEPT ![key] = NoVal]
       /\ outcome' = IF ~r.removed THEN "absent"
                     ELSE IF HasTwoChildren(root_, key) THEN "removed_two_children"
                     ELSE "removed"
       /\ heap' = c.h
       /\ fn_root' = c.roots
       /\ fn_size' = [fn_size EXCEPT ![1] = IF f.removed THEN @ - 1 ELSE @]
       /\ fn_op' = [op |-> "remove", tree |-> 1]
       /\ dod' = dod_removeOf(dod, key)
       /\ dod_ret' = [op |-> "remove", key |-> key, idx |-> dod_findNode(dod, key), value |-> NoVal]
       /\ UNCHANGED <<store_vars, thread_vars, index_vars, not_dod>>

NextParadigms ==
    \/ \E k \in DodKeys, v \in Vals : par_insert(k, v)
    \/ \E k \in DodKeys : par_remove(k)

\* the three maps default-constructed
InitParadigms ==
    /\ Init
    /\ routing_strategy_ = "INTELLIGENT"

SpecParadigms == InitParadigms /\ [][NextParadigms]_vars

\* --------------------- AVLTreeConcurrent::rebalance and the rotations alone
MaxRbKey == 6
MaxRbHeight == 3
RbKeys == 1..MaxRbKey

\* the AVL trees of height h over keys lo..hi, every height field correct
RECURSIVE AVLTreesOf(_, _, _)
AVLTreesOf(lo, hi, h) ==
    IF h = 0 THEN {Nil}
    ELSE UNION {
           {[key |-> k, value |-> v, left |-> l, right |-> r, height |-> h] :
               v \in Vals, l \in AVLTreesOf(lo, k - 1, hs[1]), r \in AVLTreesOf(k + 1, hi, hs[2])} :
           k \in lo..hi,
           hs \in {c \in (0..(h - 1)) \X (0..(h - 1)) :
                      Max2(c[1], c[2]) = h - 1 /\ c[1] - c[2] \in {-1, 0, 1}}}

\* the nodes rebalance is handed: two AVL subtrees whose heights differ by at
\* most 2, under a node whose own height field may be out of date by one
RebalanceInputs ==
    UNION {
      {[key |-> k, value |-> v, left |-> l, right |-> r, height |-> s] :
          v \in Vals, l \in AVLTreesOf(1, k - 1, hs[1]), r \in AVLTreesOf(k + 1, MaxRbKey, hs[2]),
          s \in {1 + Max2(hs[1], hs[2]) + e : e \in {-1, 0, 1}} \ {0}} :
      k \in RbKeys,
      hs \in {c \in (0..MaxRbHeight) \X (0..MaxRbHeight) : c[1] - c[2] \in -2..2}}

\* rebalance(node) called on its own; a run makes one call
rb_rebalance(node) ==
    /\ rb.op = "none"
    /\ rb' = [op |-> "rebalance", in |-> node, out |-> rebalanceNode(node)]
    /\ UNCHANGED <<store_vars, tree_vars, thread_vars, index_vars, fn_vars, not_rb>>

\* rotateLeft(x) called on its own: x has a right child
rb_rotateLeft(x) ==
    /\ rb.op = "none"
    /\ x.right # Nil
    /\ rb' = [op |-> "rotateLeft", in |-> x, out |-> rotateLeft(x)]
    /\ UNCHANGED <<store_vars, tree_vars, thread_vars, index_vars, fn_vars, not_rb>>

\* rotateRight(x) called on its own: x has a left child
rb_rotateRight(x) ==
    /\ rb.op = "none"
    /\ x.left # Nil
    /\ rb' = [op |-> "rotateRight", in |-> x, out |-> rotateRight(x)]
    /\ UNCHANGED <<store_vars, tree_vars, thread_vars, index_vars, fn_vars, not_rb>>

NextRebalance ==
    \/ \E node \in RebalanceInputs : rb_rebalance(node)
    \/ \E x \in RebalanceInputs : rb_rotateLeft(x)
    \/ \E x \in RebalanceInputs : rb_rotateRight(x)

InitRebalance ==
    /\ Init
    /\ routing_strategy_ = "INTELLIGENT"

SpecRebalance == InitRebalance /\ [][NextRebalance]_vars

\* ------------------------------------------------ DiccionarioAVL (diccAVL.cpp)
MaxDiccNodes == 5
MaxCardinal == 5
DiccKeys == 1..MaxDiccKey

\* new NodoAVL(clave, definicion, p)
NodoAVL(clave, definicion, p) ==
    [clave |-> clave, definicion |-> definicion, balanceo |-> 0,
     izquierda |-> nullptr, derecha |-> nullptr, padre |-> p, freed |-> FALSE]

\* delete nodo: ~NodoAVL clears the two child pointers, then the memory is
\* released; what is left of the node stays where it was
Delete(h, nodo) ==
    [h EXCEPT ![nodo].izquierda = nullptr, ![nodo].derecha = nullptr, ![nodo].freed = TRUE]

RECURSIVE largo(_, _)
largo(h, nodo) ==
    IF nodo = nullptr THEN -1
    ELSE 1 + Max2(largo(h, h[nodo].izquierda), largo(h, h[nodo].derecha))

definirBalanceo(h, nodo) ==
    [h EXCEPT ![nodo].balanceo = largo(h, h[nodo].derecha) - largo(h, h[nodo].izquierda)]

\* the child link of the parent that pointed to nodo is moved to nuevoNodoRaiz
EnlazarPadre(h, nodo, nuevoNodoRaiz) ==
    LET p == h[nuevoNodoRaiz].padre IN
    IF p = nullptr THEN h
    ELSE IF h[p].derecha = nodo THEN [h EXCEPT ![p].derecha = nuevoNodoRaiz]
    ELSE [h EXCEPT ![p].izquierda = nuevoNodoRaiz]

\* DiccionarioAVL::rotacionIzquierda: the heap afterwards and the new subtree root
rotacionIzquierda(h, nodo) ==
    LET nuevoNodoRaiz == h[nodo].derecha
        h1 == [h EXCEPT ![nuevoNodoRaiz].padre = h[nodo].padre,
                        ![nodo].derecha = h[nuevoNodoRaiz].izquierda]
        h2 == IF h1[nodo].derecha # nullptr
              THEN [h1 EXCEPT ![h1[nodo].derecha].padre = nodo] ELSE h1
        h3 == [h2 EXCEPT ![nuevoNodoRaiz].izquierda = nodo, ![nodo].padre = nuevoNodoRaiz]
        h4 == EnlazarPadre(h3, nodo, nuevoNodoRaiz)
    IN [h |-> definirBalanceo(definirBalanceo(h4, nodo), nuevoNodoRaiz), n |-> nuevoNodoRaiz]

\* DiccionarioAVL::rotacionDerecha
rotacionDerecha(h, nodo) ==
    LET nuevoNodoRaiz == h[nodo].izquierda
        h1 == [h EXCEPT ![nuevoNodoRaiz].padre = h[nodo].padre,
                        ![nodo].izquierda = h[nuevoNodoRaiz].derecha]
        h2 == IF h1[nodo].izquierda # nullptr
              THEN [h1 EXCEPT ![h1[nodo].izquierda].padre = nodo] ELSE h1
        h3 == [h2 EXCEPT ![nuevoNodoRaiz].derecha = nodo, ![nodo].padre = nuevoNodoRaiz]
        h4 == EnlazarPadre(h3, nodo, nuevoNodoRaiz)
    IN [h |-> definirBalanceo(definirBalanceo(h4, nodo), nuevoNodoRaiz), n |-> nuevoNodoRaiz]

rotacionIzqLuegoDer(h, nodo) ==
    LET r == rotacionIzquierda(h, h[nodo].izquierda)
    IN rotacionDerecha([r.h EXCEPT ![nodo].izquierda = r.n], nodo)

rotacionDerLuegoIzq(h, nodo) ==
    LET r == rotacionDerecha(h, h[nodo].derecha)
    IN rotacionIzquierda([r.h EXCEPT ![nodo].derecha = r.n], nodo)

\* DiccionarioAVL::rebalancear: the heap and _raiz afterwards, and the nodes
\* the walk towards the root went through
RECURSIVE rebalancear(_, _, _)
rebalancear(h, raiz, nodo) ==
    LET h1 == definirBalanceo(h, nodo)
        r == IF h1[nodo].balanceo = -2
             THEN IF largo(h1, h1[h1[nodo].izquierda].izquierda)
                        >= largo(h1, h1[h1[nodo].izquierda].derecha)
                  THEN rotacionDerecha(h1, nodo) ELSE rotacionIzqLuegoDer(h1, nodo)
             ELSE IF h1[nodo].balanceo = 2
             THEN IF largo(h1, h1[h1[nodo].derecha].derecha)
                        >= largo(h1, h1[h1[nodo].derecha].izquierda)
                  THEN rotacionIzquierda(h1, nodo) ELSE rotacionDerLuegoIzq(h1, nodo)
             ELSE [h |-> h1, n |-> nodo]
    IN IF r.h[r.n].padre # nullptr
       THEN LET up == rebalancear(r.h, raiz, r.h[r.n].padre)
            IN [h |-> up.h, raiz |-> up.raiz, visited |-> up.visited \cup {nodo, r.n}]
       ELSE [h |-> r.h, raiz |-> r.n, visited |-> {nodo, r.n}]

\* the loop of definir from nodo down: the heap afterwards, whether a node
\* was made, the node it hangs from, and the nodes the loop went through
RECURSIVE definirDesde(_, _, _, _)
definirDesde(h, nodo, clave, definicion) ==
    IF h[nodo].clave = clave
    THEN [h |-> [h EXCEPT ![nodo].definicion = definicion],
          nuevo |-> FALSE, padre |-> nodo, visited |-> {nodo}]
    ELSE LET irIzquierda == clave < h[nodo].clave
             hijo == IF irIzquierda THEN h[nodo].izquierda ELSE h[nodo].derecha
         IN IF hijo = nullptr
            THEN [h |-> Append(IF irIzquierda THEN [h EXCEPT ![nodo].izquierda = Len(h) + 1]
                                              ELSE [h EXCEPT ![nodo].derecha = Len(h) + 1],
                               NodoAVL(clave, definicion, nodo)),
                  nuevo |-> TRUE, padre |-> nodo, visited |-> {nodo}]
            ELSE LET r == definirDesde(h, hijo, clave, definicion)
                 IN [r EXCEPT !.visited = @ \cup {nodo}]

\* DiccionarioAVL::definir on a dictionary whose _raiz is not null when its
\* _cardinal is not 0
definirEn(d, clave, definicion) ==
    IF d.cardinal = 0
    THEN [d EXCEPT !.heap = Append(@, NodoAVL(clave, definicion, nullptr)),
                   !.raiz = Len(d.heap) + 1,
                   !.cardinal = @ + 1,
                   !.visited = {}]
    ELSE LET s == definirDesde(d.heap, d.raiz, clave, definicion)
             b == IF s.nuevo THEN rebalancear(s.h, d.raiz, s.padre)
                  ELSE [h |-> s.h, raiz |-> d.raiz, visited |-> {}]
         IN [d EXCEPT !.heap = b.h, !.raiz = b.raiz,
                      !.cardinal = @ + 1,
                      !.visited = s.visited \cup b.visited]

\* DiccionarioAVL::removerHoja
removerHoja(h, raiz, nodoBorrar, padreNodo) ==
    IF padreNodo = nullptr THEN [h |-> Delete(h, nodoBorrar), raiz |-> nullptr]
    ELSE IF h[padreNodo].derecha = nodoBorrar
    THEN [h |-> Delete([h EXCEPT ![padreNodo].derecha = nullptr], nodoBorrar), raiz |-> raiz]
    ELSE [h |-> Delete([h EXCEPT ![padreNodo].izquierda = nullptr], nodoBorrar), raiz |-> raiz]

\* DiccionarioAVL::removerConUnHijo
removerConUnHijo(h, raiz, nodoBorrar, padreNodo) ==
    LET hijo == IF h[nodoBorrar].izquierda = nullptr
                THEN h[nodoBorrar].derecha ELSE h[nodoBorrar].izquierda
    IN IF padreNodo = nullptr
       THEN [h |-> Delete([h EXCEPT ![hijo].padre = nullptr], nodoBorrar), raiz |-> hijo]
       ELSE IF h[padreNodo].derecha = nodoBorrar
       THEN [h |-> Delete([h EXCEPT ![padreNodo].derecha = hijo, ![hijo].padre = padreNodo],
                          nodoBorrar),
             raiz |-> raiz]
       ELSE [h |-> Delete([h EXCEPT ![padreNodo].izquierda = hijo, ![hijo].padre = padreNodo],
                          nodoBorrar),
             raiz |-> raiz]

RECURSIVE maximoDeArbol(_, _)
maximoDeArbol(h, nodo) ==
    IF h[nodo].derecha # nullptr THEN maximoDeArbol(h, h[nodo].derecha) ELSE nodo

\* DiccionarioAVL::removerConDosHijos: the heap afterwards
removerConDosHijos(h, nodoBorrar) ==
    LET predMaximo == maximoDeArbol(h, h[nodoBorrar].izquierda)
        padreDeMaximo == h[predMaximo].padre
        h1 == [h EXCEPT ![nodoBorrar].clave = h[predMaximo].clave]
    IN IF h1[predMaximo].izquierda = nullptr
       THEN IF h1[padreDeMaximo].derecha = predMaximo
            THEN [Delete(h1, predMaximo) EXCEPT ![padreDeMaximo].derecha = nullptr]
            ELSE [Delete(h1, h1[padreDeMaximo].izquierda) EXCEPT ![padreDeMaximo].izquierda = nullptr]
       ELSE IF h1[nodoBorrar].izquierda = predMaximo
       THEN Delete([h1 EXCEPT ![nodoBorrar].izquierda = h1[predMaximo].izquierda], predMaximo)
       ELSE Delete([h1 EXCEPT ![padreDeMaximo].derecha = h1[predMaximo].izquierda,
                              ![h1[predMaximo].izquierda].padre = padreDeMaximo],
                   predMaximo)

\* the search loop of borrar: nodo, padre and hijo when it ends
RECURSIVE buscarBorrar(_, _, _, _, _)
buscarBorrar(h, clave, padre, nodo, hijo) ==
    IF hijo # nullptr /\ h[nodo].clave # clave
    THEN LET r == buscarBorrar(h, clave, nodo, hijo,
                               IF clave < h[hijo].clave THEN h[hijo].izquierda
                               ELSE h[hijo].derecha)
         IN [r EXCEPT !.visited = @ \cup {nodo}]
    ELSE [padre |-> padre, nodo |-> nodo, visited |-> {nodo}]

\* DiccionarioAVL::borrar
borrarEn(d, clave) ==
    IF d.raiz = nullptr THEN [d EXCEPT !.visited = {}]
    ELSE LET s == buscarBorrar(d.heap, clave, nullptr, d.raiz, d.raiz)
             h == d.heap
         IN IF h[s.nodo].clave # clave THEN [d EXCEPT !.visited = s.visited]
            ELSE LET r == IF h[s.nodo].izquierda = nullptr /\ h[s.nodo].derecha = nullptr
                          THEN removerHoja(h, d.raiz, s.nodo, s.padre)
                          ELSE IF h[s.nodo].izquierda = nullptr \/ h[s.nodo].derecha = nullptr
                          THEN removerConUnHijo(h, d.raiz, s.nodo, s.padre)
                          ELSE [h |-> removerConDosHijos(h, s.nodo), raiz |-> d.raiz]
                     touched == IF h[s.nodo].izquierda # nullptr /\ h[s.nodo].derecha # nullptr
                                THEN {h[maximoDeArbol(h, h[s.nodo].izquierda)].padre}
                                ELSE {}
                     b == IF s.padre = nullptr /\ r.raiz # nullptr
                          THEN rebalancear(r.h, r.raiz, r.raiz)
                          ELSE IF s.padre # nullptr
                          THEN rebalancear(r.h, r.raiz, s.padre)
                          ELSE [h |-> r.h, raiz |-> r.raiz, visited |-> {}]
                 IN [d EXCEPT !.heap = b.h, !.raiz = b.raiz, !.cardinal = @ - 1,
                              !.visited = s.visited \cup touched \cup b.visited]

\* DiccionarioAVL::definido
RECURSIVE definidoDesde(_, _, _)
definidoDesde(h, nodo, clave) ==
    IF nodo # nullptr /\ h[nodo].clave # clave
    THEN definidoDesde(h, IF clave < h[nodo].clave THEN h[nodo].izquierda ELSE h[nodo].derecha,
                       clave)
    ELSE nodo # nullptr /\ h[nodo].clave = clave

definidoEn(d, clave) == definidoDesde(d.heap, d.raiz, clave)

\* the call went through a node that had been deleted before it
UsedAfterFree(before, after) ==
    \E nodo \in after.visited : nodo \in 1..Len(before.heap) /\ before.heap[nodo].freed

\* the process stopped by a memory fault
Crashed(d) == [d EXCEPT !.status = "crashed"]

\* the nodes that _raiz leads to through child and parent pointers, in the
\* order a walk from _raiz meets them
RECURSIVE Alcanzados(_, _, _)
Alcanzados(h, work, seen) ==
    IF work = <<>> THEN seen
    ELSE LET nodo == Head(work) IN
         IF nodo = nullptr \/ \E i \in 1..Len(seen) : seen[i] = nodo
         THEN Alcanzados(h, Tail(work), seen)
         ELSE Alcanzados(h, <<h[nodo].izquierda, h[nodo].derecha, h[nodo].padre>> \o Tail(work),
                         Append(seen, nodo))

\* memory that no pointer leads to is out of the program's reach: the nodes
\* that remain take their place in the walk from _raiz as address
Compactar(d) ==
    LET alive == Alcanzados(d.heap, <<d.raiz>>, <<>>)
        addr(nodo) == IF nodo = nullptr THEN nullptr
                      ELSE CHOOSE i \in 1..Len(alive) : alive[i] = nodo
    IN [d EXCEPT !.heap = [i \in 1..Len(alive) |->
                              [d.heap[alive[i]] EXCEPT !.izquierda = addr(@),
                                                       !.derecha = addr(@),
                                                       !.padre = addr(@)]],
                 !.raiz = addr(d.raiz),
                 !.visited = {}]

\* what a call leaves behind: what it computed, or, when it went through
\* deleted memory, that or a fault
Outcomes(before, after) ==
    IF UsedAfterFree(before, after) THEN {Compactar(after), Crashed(before)}
    ELSE {Compactar(after)}

\* DiccionarioAVL::definir; with _cardinal not 0 and _raiz null the loop reads
\* the key of the null node, a memory fault
definir(clave, definicion) ==
    /\ dicc.status = "ok"
    /\ dicc.cardinal < MaxCardinal
    /\ Len(dicc.heap) < MaxDiccNodes
    /\ IF dicc.cardinal # 0 /\ dicc.raiz = nullptr
       THEN dicc' = Crashed(dicc)
       ELSE dicc' \in Outcomes(dicc, definirEn(dicc, clave, definicion))
    /\ dicc_hist' = [op |-> "definir", clave |-> clave,
                     defs |-> [dicc_hist.defs EXCEPT ![clave] = definicion]]
    /\ UNCHANGED <<store_vars, tree_vars, thread_vars, index_vars, fn_vars, not_dicc>>

\* DiccionarioAVL::borrar
borrar(clave) ==
    /\ dicc.status = "ok"
    /\ dicc' \in Outcomes(dicc, borrarEn(dicc, clave))
    /\ dicc_hist' = [op |-> "borrar", clave |-> clave,
                     defs |-> [dicc_hist.defs EXCEPT ![clave] = NoVal]]
    /\ UNCHANGED <<store_vars, tree_vars, thread_vars, index_vars, fn_vars, not_dicc>>

\* DiccionarioAVL::cardinal
cardinal ==
    /\ dicc.status = "ok"
    /\ dicc.cardinal \in Nat
    /\ UNCHANGED vars

\* DiccionarioAVL::definido
definido(clave) ==
    /\ dicc.status = "ok"
    /\ definidoEn(dicc, clave) \in BOOLEAN
    /\ UNCHANGED vars

NextDicc ==
    \/ \E k \in DiccKeys, v \in Vals : definir(k, v)
    \/ \E k \in DiccKeys : borrar(k)
    \/ cardinal
    \/ \E k \in DiccKeys : definido(k)

\* a default-constructed store next to an empty DiccionarioAVL
InitDicc ==
    /\ Init
    /\ routing_strategy_ = "INTELLIGENT"

SpecDicc == InitDicc /\ [][NextDicc]_vars

\* ------------------------------- AVLTreeOptimisticLock (a lock in each node)
MaxOlKey == 4
OlKeys == 1..MaxOlKey

\* std::make_shared<Node>(key, value), its node_lock free
OlNode(key, value) ==
    [key |-> key, value |-> value, left |-> nullptr, right |-> nullptr, height |-> 1,
     node_lock |-> NoThread]

\* a thread outside insert
OlIdle == [pc |-> "idle", key |-> 0, value |-> NoVal, stack |-> <<>>, result |-> nullptr,
           inserted |-> FALSE, holds |-> nullptr]

ol_height(h, n) == IF n # nullptr THEN h[n].height ELSE 0

ol_balanceFactor(h, n) ==
    IF n # nullptr THEN ol_height(h, h[n].right) - ol_height(h, h[n].left) ELSE 0

ol_updateHeight(h, n) ==
    IF n # nullptr
    THEN [h EXCEPT ![n].height = 1 + Max2(ol_height(h, h[n].left), ol_height(h, h[n].right))]
    ELSE h

\* AVLTreeOptimisticLock::rotateLeft: the nodes afterwards and the new subtree root
ol_rotateLeft(h, x) ==
    LET y == h[x].right
        B == h[y].left
        h1 == [h EXCEPT ![y].left = x, ![x].right = B]
    IN [h |-> ol_updateHeight(ol_updateHeight(h1, x), y), n |-> y]

ol_rotateRight(h, x) ==
    LET y == h[x].left
        B == h[y].right
        h1 == [h EXCEPT ![y].right = x, ![x].left = B]
    IN [h |-> ol_updateHeight(ol_updateHeight(h1, x), y), n |-> y]

\* AVLTreeOptimisticLock::rebalance
ol_rebalance(h, node) ==
    IF node = nullptr THEN [h |-> h, n |-> nullptr]
    ELSE LET h1 == ol_updateHeight(h, node)
             bf == ol_balanceFactor(h1, node)
         IN IF bf < -1
            THEN IF ol_balanceFactor(h1, h1[node].left) > 0
                 THEN LET r == ol_rotateLeft(h1, h1[node].left)
                      IN ol_rotateRight([r.h EXCEPT ![node].left = r.n], node)
                 ELSE ol_rotateRight(h1, node)
            ELSE IF bf > 1
            THEN IF ol_balanceFactor(h1, h1[node].right) < 0
                 THEN LET r == ol_rotateRight(h1, h1[node].right)
                      IN ol_rotateLeft([r.h EXCEPT ![node].right = r.n], node)
                 ELSE ol_rotateLeft(h1, node)
            ELSE [h |-> h1, n |-> node]

\* the node on top of thread t's stack of insertWithLocking calls
OlTop(t) == ol.th[t].stack[Len(ol.th[t].stack)]

\* a call of insertWithLocking of thread t returns r: its current_lock goes
\* out of scope, which unlocks node_lock if the call still owns it, and the
\* caller goes on, or insert does when the call was the outermost
OlReturn(o, t, r) ==
    LET me == o.th[t]
        n == me.stack[Len(me.stack)]
        h == IF me.holds = n THEN [o.heap EXCEPT ![n].node_lock = NoThread] ELSE o.heap
        rest == SubSeq(me.stack, 1, Len(me.stack) - 1)
    IN [o EXCEPT !.heap = h,
                 !.th[t].stack = rest,
                 !.th[t].result = r,
                 !.th[t].holds = IF me.holds = n THEN nullptr ELSE me.holds,
                 !.th[t].pc = IF rest = <<>> THEN "root" ELSE "link"]

\* AVLTreeOptimisticLock::insert up to the call of insertWithLocking, under
\* root_lock_: the first node of an empty tree is made here
ol_insert(t, key, value) ==
    /\ ol.th[t].pc = "idle"
    /\ key \notin ol.done
    /\ \A u \in Threads : ol.th[u].pc # "idle" => ol.th[u].key # key
    /\ ol' = IF ol.root_ = nullptr
             THEN [ol EXCEPT !.heap = Append(@, OlNode(key, value)),
                             !.root_ = Len(ol.heap) + 1,
                             !.size_ = @ + 1,
                             !.done = @ \cup {key}]
             ELSE [ol EXCEPT !.th[t] = [OlIdle EXCEPT !.pc = "lock", !.key = key,
                                                      !.value = value,
                                                      !.stack = <<ol.root_>>]]
    /\ UNCHANGED <<store_vars, tree_vars, thread_vars, index_vars, fn_vars, not_ol>>

\* insertWithLocking: lock this node, then release the parent's lock
ol_lock(t) ==
    /\ ol.th[t].pc = "lock"
    /\ ol.heap[OlTop(t)].node_lock = NoThread
    /\ ol' = [ol EXCEPT !.heap = [n \in 1..Len(ol.heap) |->
                                     IF n = OlTop(t) THEN [ol.heap[n] EXCEPT !.node_lock = t]
                                     ELSE IF n = ol.th[t].holds
                                     THEN [ol.heap[n] EXCEPT !.node_lock = NoThread]
                                     ELSE ol.heap[n]],
                      !.th[t].holds = OlTop(t),
                      !.th[t].pc = "compare"]
    /\ UNCHANGED <<store_vars, tree_vars, thread_vars, index_vars, fn_vars, not_ol>>

\* insertWithLocking: compare the key and call itself on the child; a null
\* child is answered with a new node, an equal key has its value replaced
ol_compare(t) ==
    LET me == ol.th[t]
        n == OlTop(t)
        child == IF me.key < ol.heap[n].key THEN ol.heap[n].left ELSE ol.heap[n].right
    IN /\ me.pc = "compare"
       /\ ol' = IF me.key = ol.heap[n].key
                THEN OlReturn([ol EXCEPT !.heap[n].value = me.value,
                                         !.th[t].inserted = FALSE], t, n)
                ELSE IF child = nullptr
                THEN [ol EXCEPT !.heap = Append(@, OlNode(me.key, me.value)),
                                !.th[t].inserted = TRUE,
                                !.th[t].result = Len(ol.heap) + 1,
                                !.th[t].pc = "link"]
                ELSE [ol EXCEPT !.th[t].stack = Append(@, child), !.th[t].pc = "lock"]
       /\ UNCHANGED <<store_vars, tree_vars, thread_vars, index_vars, fn_vars, not_ol>>

\* insertWithLocking: node->left = ... or node->right = ... with what the
\* call on the child returned
ol_link(t) ==
    LET me == ol.th[t]
        n == OlTop(t)
    IN /\ me.pc = "link"
       /\ ol' = [ol EXCEPT !.heap[n] = IF me.key < ol.heap[n].key
                                       THEN [@ EXCEPT !.left = me.result]
                                       ELSE [@ EXCEPT !.right = me.result],
                         !.th[t].pc = "rebalance"]
       /\ UNCHANGED <<store_vars, tree_vars, thread_vars, index_vars, fn_vars, not_ol>>

\* insertWithLocking: return rebalance(node)
ol_return_rebalance(t) ==
    LET r == ol_rebalance(ol.heap, OlTop(t))
    IN /\ ol.th[t].pc = "rebalance"
       /\ ol' = OlReturn([ol EXCEPT !.heap = r.h], t, r.n)
       /\ UNCHANGED <<store_vars, tree_vars, thread_vars, index_vars, fn_vars, not_ol>>

\* insert: root_ = insertWithLocking(...), root_lock_ not held
ol_root(t) ==
    /\ ol.th[t].pc = "root"
    /\ ol' = [ol EXCEPT !.root_ = ol.th[t].result, !.th[t].pc = "size"]
    /\ UNCHANGED <<store_vars, tree_vars, thread_vars, index_vars, fn_vars, not_ol>>

\* insert: if (inserted) ++size_ under root_lock_, and return
ol_size(t) ==
    /\ ol.th[t].pc = "size"
    /\ ol' = [ol EXCEPT !.size_ = IF ol.th[t].inserted THEN @ + 1 ELSE @,
                        !.done = @ \cup {ol.th[t].key},
                        !.th[t] = OlIdle]
    /\ UNCHANGED <<store_vars, tree_vars, thread_vars, index_vars, fn_vars, not_ol>>

NextOl ==
    \/ \E t \in Threads, k \in OlKeys, v \in Vals : ol_insert(t, k, v)
    \/ \E t \in Threads : ol_lock(t)
    \/ \E t \in Threads : ol_compare(t)
    \/ \E t \in Threads : ol_link(t)
    \/ \E t \in Threads : ol_return_rebalance(t)
    \/ \E t \in Threads : ol_root(t)
    \/ \E t \in Threads : ol_size(t)

\* a default-constructed store next to an empty AVLTreeOptimisticLock
InitOl ==
    /\ Init
    /\ routing_strategy_ = "INTELLIGENT"

SpecOl == InitOl /\ [][NextOl]_vars

\* ------------------------------- AVLTreeFineGrained (a mutex in each node)
\* insert and remove hold root_mutex_ from their first statement to their
\* last, so one writer is inside the tree at a time; contains copies root_
\* under root_mutex_ and walks down with no lock between two nodes.  A
\* node_mutex is taken and released within one step of a thread, so no
\* step starts with a node_mutex held.
MaxFgKey == 3
MaxFgNodes == 4
FgKeys == 1..MaxFgKey

\* std::make_shared<Node>(key, value)
FgNode(key, value) ==
    [key |-> key, value |-> value, left |-> nullptr, right |-> nullptr, height |-> 1]

\* the writer outside insert and remove
FgWriterIdle == [pc |-> "idle", op |-> "none", key |-> 0, stack |-> <<>>, result |-> nullptr,
                 flag |-> FALSE]

\* the reader outside contains
FgReaderIdle == [pc |-> "idle", key |-> 0, root_copy |-> nullptr, parent |-> nullptr,
                 side |-> "root", result |-> FALSE, present |-> FALSE, touched |-> FALSE]

\* AVLTreeFineGrained::rebalance with height, balanceFactor, updateHeight and
\* the two rotations: statement for statement those of AVLTreeOptimisticLock
fg_rebalance(h, node) == ol_rebalance(h, node)

\* AVLTreeFineGrained::findMin
RECURSIVE fg_findMin(_, _)
fg_findMin(h, node) ==
    IF node # nullptr /\ h[node].left # nullptr THEN fg_findMin(h, h[node].left) ELSE node

\* insertRec on the way down: the calls left waiting for their child's call
\* (node and the side the key lies on), and what the innermost call returns
RECURSIVE fg_insertRec(_, _, _, _)
fg_insertRec(h, node, key, value) ==
    IF node = nullptr
    THEN [h |-> Append(h, FgNode(key, value)), stack |-> <<>>, result |-> Len(h) + 1,
          flag |-> TRUE]
    ELSE IF key < h[node].key
    THEN LET r == fg_insertRec(h, h[node].left, key, value)
         IN [r EXCEPT !.stack = <<[node |-> node, side |-> "left"]>> \o @]
    ELSE IF h[node].key < key
    THEN LET r == fg_insertRec(h, h[node].right, key, value)
         IN [r EXCEPT !.stack = <<[node |-> node, side |-> "right"]>> \o @]
    ELSE [h |-> [h EXCEPT ![node].value = value], stack |-> <<>>, result |-> node,
          flag |-> FALSE]

\* removeRec on the way down: a node with two children takes its successor's
\* key and value and the call goes on into its right subtree for that key
RECURSIVE fg_removeRec(_, _, _)
fg_removeRec(h, node, key) ==
    IF node = nullptr
    THEN [h |-> h, stack |-> <<>>, result |-> nullptr, flag |-> FALSE]
    ELSE IF key < h[node].key
    THEN LET r == fg_removeRec(h, h[node].left, key)
         IN [r EXCEPT !.stack = <<[node |-> node, side |-> "left"]>> \o @]
    ELSE IF h[node].key < key
    THEN LET r == fg_removeRec(h, h[node].right, key)
         IN [r EXCEPT !.stack = <<[node |-> node, side |-> "right"]>> \o @]
    ELSE IF h[node].left = nullptr
    THEN [h |-> h, stack |-> <<>>, result |-> h[node].right, flag |-> TRUE]
    ELSE IF h[node].right = nullptr
    THEN [h |-> h, stack |-> <<>>, result |-> h[node].left, flag |-> TRUE]
    ELSE LET successor == fg_findMin(h, h[node].right)
             h1 == [h EXCEPT ![node].key = h[successor].key,
                             ![node].value = h[successor].value]
             r == fg_removeRec(h1, h1[node].right, h[successor].key)
         IN [r EXCEPT !.stack = <<[node |-> node, side |-> "right"]>> \o @]

\* the writer's state when its calls have gone down as far as they go
FgDescended(f, op, key, r) ==
    [f EXCEPT !.heap = r.h,
              !.w = [pc |-> IF r.stack = <<>> THEN "root" ELSE "link", op |-> op, key |-> key,
                     stack |-> r.stack, result |-> r.result, flag |-> r.flag],
              !.r.touched = @ \/ (f.r.pc # "idle" /\ f.r.key = key)]

\* AVLTreeFineGrained::insert: root_mutex_ taken, insertRec down to the place
\* of the key
fg_insert(key, value) ==
    /\ fg.w.pc = "idle"
    /\ Len(fg.heap) < MaxFgNodes
    /\ fg' = FgDescended(fg, "insert", key, fg_insertRec(fg.heap, fg.root_, key, value))
    /\ UNCHANGED <<store_vars, tree_vars, thread_vars, index_vars, fn_vars, not_fg>>

\* AVLTreeFineGrained::remove: root_mutex_ taken, removeRec down to the node
\* that leaves the tree
fg_remove(key) ==
    /\ fg.w.pc = "idle"
    /\ fg' = FgDescended(fg, "remove", key, fg_removeRec(fg.heap, fg.root_, key))
    /\ UNCHANGED <<store_vars, tree_vars, thread_vars, index_vars, fn_vars, not_fg>>

\* insertRec, removeRec: node->left = ... or node->right = ... with what the
\* call on the child returned, node_mutex not held
fg_link ==
    LET f == fg.w.stack[Len(fg.w.stack)]
    IN /\ fg.w.pc = "link"
       /\ fg' = [fg EXCEPT !.heap[f.node] = IF f.side = "left"
                                            THEN [@ EXCEPT !.left = fg.w.result]
                                            ELSE [@ EXCEPT !.right = fg.w.result],
                         !.w.pc = "rebalance"]
       /\ UNCHANGED <<store_vars, tree_vars, thread_vars, index_vars, fn_vars, not_fg>>

\* insertRec, removeRec: lock.lock(); return rebalance(node)
fg_return_rebalance ==
    LET f == fg.w.stack[Len(fg.w.stack)]
        r == fg_rebalance(fg.heap, f.node)
        rest == SubSeq(fg.w.stack, 1, Len(fg.w.stack) - 1)
    IN /\ fg.w.pc = "rebalance"
       /\ fg' = [fg EXCEPT !.heap = r.h,
                         !.w.stack = rest,
                         !.w.result = r.n,
                         !.w.pc = IF rest = <<>> THEN "root" ELSE "link"]
       /\ UNCHANGED <<store_vars, tree_vars, thread_vars, index_vars, fn_vars, not_fg>>

\* insert, remove: root_ = ...; the count follows; root_mutex_ released
fg_root ==
    /\ fg.w.pc = "root"
    /\ fg' = [fg EXCEPT !.root_ = fg.w.result,
                      !.size_ = IF ~fg.w.flag THEN @
                                ELSE IF fg.w.op = "insert" THEN @ + 1 ELSE @ - 1,
                      !.w = FgWriterIdle]
    /\ UNCHANGED <<store_vars, tree_vars, thread_vars, index_vars, fn_vars, not_fg>>

\* nodes some shared_ptr still leads to: from root_, from the reader's
\* root_copy, from the writer's calls and from what its latest call returned
RECURSIVE FgReach(_, _, _)
FgReach(h, nodes, fuel) ==
    LET next == nodes \cup {h[n].left : n \in nodes} \cup {h[n].right : n \in nodes}
        known == next \ {nullptr}
    IN IF fuel = 0 \/ known = nodes THEN nodes ELSE FgReach(h, known, fuel - 1)

FgAlive(f) ==
    FgReach(f.heap,
            ({f.root_, f.r.root_copy, f.w.result}
                \cup {f.w.stack[i].node : i \in 1..Len(f.w.stack)}) \ {nullptr},
            Len(f.heap))

\* does a search from node meet key
RECURSIVE fg_containsRec(_, _, _, _)
fg_containsRec(h, node, key, fuel) ==
    /\ node # nullptr
    /\ fuel > 0
    /\ \/ h[node].key = key
       \/ fg_containsRec(h, IF key < h[node].key THEN h[node].left ELSE h[node].right,
                         key, fuel - 1)

\* AVLTreeFineGrained::contains: root_copy = root_ under root_mutex_
fg_contains(key) ==
    /\ fg.r.pc = "idle"
    /\ fg.w.pc = "idle"
    /\ fg' = [fg EXCEPT !.r = [FgReaderIdle EXCEPT
                                  !.pc = "visit", !.key = key, !.root_copy = fg.root_,
                                  !.present = fg_containsRec(fg.heap, fg.root_, key,
                                                             Len(fg.heap))]]
    /\ UNCHANGED <<store_vars, tree_vars, thread_vars, index_vars, fn_vars, not_fg>>

\* containsRec on one node: its parameter is a reference, to root_copy in the
\* outermost call and to the child pointer inside the parent node in the
\* others, read when this call runs.  A parent no shared_ptr leads to any more
\* has been destroyed and the reference dangles: the call can answer anything.
fg_visit ==
    LET me == fg.r
        node == IF me.parent = nullptr THEN me.root_copy
                ELSE IF me.side = "left" THEN fg.heap[me.parent].left
                ELSE fg.heap[me.parent].right
    IN /\ me.pc = "visit"
       /\ IF me.parent # nullptr /\ me.parent \notin FgAlive(fg)
          THEN \E b \in BOOLEAN : fg' = [fg EXCEPT !.r.pc = "done", !.r.result = b]
          ELSE fg' = IF node = nullptr
                     THEN [fg EXCEPT !.r.pc = "done", !.r.result = FALSE]
                     ELSE IF me.key = fg.heap[node].key
                     THEN [fg EXCEPT !.r.pc = "done", !.r.result = TRUE]
                     ELSE [fg EXCEPT !.r.parent = node,
                                     !.r.side = IF me.key < fg.heap[node].key
                                                THEN "left" ELSE "right"]
       /\ UNCHANGED <<store_vars, tree_vars, thread_vars, index_vars, fn_vars, not_fg>>

\* contains has returned
fg_contains_return ==
    /\ fg.r.pc = "done"
    /\ fg' = [fg EXCEPT !.r = FgReaderIdle]
    /\ UNCHANGED <<store_vars, tree_vars, thread_vars, index_vars, fn_vars, not_fg>>

\* the calls of workerConcurrent: insert(key, key), remove(key), contains(key)
NextFg ==
    \/ \E k \in FgKeys : fg_insert(k, k)
    \/ \E k \in FgKeys : fg_remove(k)
    \/ fg_link
    \/ fg_return_rebalance
    \/ fg_root
    \/ \E k \in FgKeys : fg_contains(k)
    \/ fg_visit
    \/ fg_contains_return

\* a default-constructed store next to an empty AVLTreeFineGrained
InitFg ==
    /\ Init
    /\ routing_strategy_ = "INTELLIGENT"

SpecFg == InitFg /\ [][NextFg]_vars

\* ----------------------------- rebalance on the shard counts, any threshold
MaxDrainCount == 5
DrainCounts == [Shards -> 0..MaxDrainCount]

\* ratio thresholds above 0, below and above 1; 5/2 is the benchmark's 2.5
DrainRatios == {<<1, 4>>, <<1, 2>>, <<1, 1>>, <<5, 2>>}

\* step 3 for one overloaded shard s: up to e entries leave s one by one, each
\* for the next underloaded shard, which leaves the set once it has reached
\* the mean
RECURSIVE DrainEntries(_, _, _, _)
DrainEntries(st, total, s, e) ==
    IF e <= 0 \/ st.under = {} \/ st.counts[s] = 0 THEN st
    ELSE LET t == NextTarget(st.under, st.prev)
             counts1 == [[st.counts EXCEPT ![s] = @ - 1] EXCEPT ![t] = @ + 1]
         IN DrainEntries([counts |-> counts1,
                          under |-> IF counts1[t] * NumShards >= total
                                    THEN st.under \ {t} ELSE st.under,
                          prev |-> t,
                          drained |-> [st.drained EXCEPT ![s] = @ + 1],
                          inserted |-> st.inserted + 1],
                         total, s, e - 1)

\* step 3: the overloaded shards in order
RECURSIVE DrainFrom(_, _, _, _, _)
DrainFrom(st, counts, total, order, i) ==
    IF i > Len(order) THEN st
    ELSE DrainFrom(DrainEntries(st, total, order[i], RoundedExcess(counts[order[i]], total)),
                   counts, total, order, i + 1)

\* rebalance(ratio_threshold) on shards holding counts[s] entries: which
\* shards were overloaded, the target excess E of each, and the counts after
rebalance_counts(counts, ratio) ==
    LET total == SumShards(counts)
        over == Overloaded(counts, total, ratio)
        st == DrainFrom([counts |-> counts, under |-> Underloaded(counts, total),
                         prev |-> NoShard, drained |-> [s \in Shards |-> 0], inserted |-> 0],
                        counts, total, DescendingByCount(counts, over), 1)
    IN /\ dr.op = "none"
       /\ dr' = [op |-> "rebalance", counts |-> counts, ratio |-> ratio, over |-> over,
                 E |-> [s \in Shards |-> IF s \in over THEN RoundedExcess(counts[s], total)
                                         ELSE 0],
                 after |-> st.counts, drained |-> st.drained, inserted |-> st.inserted]
       /\ UNCHANGED <<store_vars, tree_vars, thread_vars, index_vars, fn_vars, not_dr>>

NextDrain == \E counts \in DrainCounts, ratio \in DrainRatios : rebalance_counts(counts, ratio)

\* a default-constructed store, no rebalance run yet
InitDrain ==
    /\ Init
    /\ routing_strategy_ = "INTELLIGENT"

SpecDrain == InitDrain /\ [][NextDrain]_vars

\* ------------------------------------- size() next to the mutating calls
\* number of keys put and not removed since
LiveCount == Cardinality({k \in Keys : live[k] # NoVal})

\* the live counts seen since size() was called, when one is running
SizeSeen(count) == IF sz.pc = "idle" THEN sz ELSE [sz EXCEPT !.seen = @ \cup {count}]

\* AVLTreeAdaptive::insert while a size() may be running
sz_insert(key, value) ==
    LET shard_idx == route(key)
        old_size == TreeSize(shards_[shard_idx])
        new_tree == TreeInsert(shards_[shard_idx], key, value)
        new_size == TreeSize(new_tree)
    IN /\ shards_' = [shards_ EXCEPT ![shard_idx] = new_tree]
       /\ IF new_size > old_size
          THEN /\ local_size' = [local_size EXCEPT ![shard_idx] = @ + 1]
               /\ shard_loads' = recordInsertion(shard_loads, shard_idx)
          ELSE UNCHANGED <<local_size, shard_loads>>
       /\ live' = [live EXCEPT ![key] = value]
       /\ migrated' = 0
       /\ sz' = SizeSeen(Cardinality({k \in Keys : k = key \/ live[k] # NoVal}))
       /\ UNCHANGED <<routing_strategy_, redirects_>>
       /\ UNCHANGED <<tree_vars, thread_vars, index_vars, fn_vars, not_sz>>

\* AVLTreeAdaptive::remove while a size() may be running
sz_remove(key) ==
    LET i == FirstHolder(key) IN
    /\ IF i # NoShard
       THEN /\ shards_' = [shards_ EXCEPT ![i] = TreeRemove(@, key)]
            /\ local_size' = [local_size EXCEPT ![i] = @ - 1]
            /\ shard_loads' = recordRemoval(shard_loads, i)
       ELSE UNCHANGED <<shards_, local_size, shard_loads>>
    /\ live' = [live EXCEPT ![key] = NoVal]
    /\ migrated' = 0
    /\ sz' = SizeSeen(Cardinality({k \in Keys : k # key /\ live[k] # NoVal}))
    /\ UNCHANGED <<routing_strategy_, redirects_>>
    /\ UNCHANGED <<tree_vars, thread_vars, index_vars, fn_vars, not_sz>>

\* rebalance(ratio_threshold) while a size() may be running: size() takes no
\* barrier
sz_rebalance(ratio) ==
    /\ Migrate(ratio)
    /\ UNCHANGED <<tree_vars, thread_vars, index_vars, fn_vars, ext_vars>>

\* AVLTreeAdaptive::size: total = 0
sz_begin ==
    /\ sz.pc = "idle"
    /\ sz' = [pc |-> "scan", idx |-> 0, total |-> 0, seen |-> {LiveCount}]
    /\ UNCHANGED <<store_vars, tree_vars, thread_vars, index_vars, fn_vars, not_sz>>

\* size: total += shard->local_size.load() for the next shard
sz_load ==
    /\ sz.pc = "scan"
    /\ sz' = [sz EXCEPT !.total = @ + local_size[sz.idx],
                        !.idx = @ + 1,
                        !.pc = IF sz.idx + 1 = NumShards THEN "done" ELSE "scan"]
    /\ UNCHANGED <<store_vars, tree_vars, thread_vars, index_vars, fn_vars, not_sz>>

\* size: return total
sz_return ==
    /\ sz.pc = "done"
    /\ sz' = [pc |-> "idle", idx |-> 0, total |-> 0, seen |-> {}]
    /\ UNCHANGED <<store_vars, tree_vars, thread_vars, index_vars, fn_vars, not_sz>>

\* every put stores the same value: the counters do not depend on it
NextSize ==
    \/ \E k \in Keys : sz_insert(k, MaxVal)
    \/ \E k \in Keys : sz_remove(k)
    \/ \E r \in Ratios : sz_rebalance(r)
    \/ sz_begin
    \/ sz_load
    \/ sz_return

\* a default-constructed store (strategy STATIC_HASH), no size() running
InitSize ==
    /\ Init
    /\ routing_strategy_ = "STATIC_HASH"

SpecSize == InitSize /\ [][NextSize]_vars

\* ---------------------------------------------------------------- claims
\* shards whose tree holds key
Holders(key) == {s \in Shards : TreeContains(shards_[s], key)}

\* keys put and not removed since
LiveKeys == {k \in Keys : live[k] # NoVal}

\* C1: every live key is contained in exactly one shard's tree
C1_ExactlyOneShard ==
    \A k \in LiveKeys : Cardinality(Holders(k)) = 1

\* C2: for every live key k, get(k) returns the value of the most recent put(k, v)
C2_GetReturnsLastPut ==
    \A k \in LiveKeys : GetResult(k) = live[k]

\* C3: size(), the sum of the per-shard element counters, equals the number of
\* distinct live keys
C3_SizeIsLiveCount ==
    size = Cardinality(LiveKeys)

\* C4: each live key resides in its natural shard or in the shard that
\* redirect_index.lookup(k) returns
C4_NaturalOrRedirected ==
    \A k \in LiveKeys : \A s \in Holders(k) : s = natural(k) \/ lookup(k) = s

\* C5: whenever lookup(k) returns a shard s, k is stored in shard s and s differs
\* from natural(k)
C5_RedirectConsistent ==
    \A k \in Keys :
        lookup(k) # NoShard =>
            /\ TreeContains(shards_[lookup(k)], k)
            /\ lookup(k) # natural(k)

\* contains(k) is true and get(k) is the value last put for k
Visible(k) == ContainsResult(k) /\ GetResult(k) = live[k]

\* C6: once put(k, v) has returned, contains(k) and get(k) find the entry, and
\* they keep finding it across every other operation until k is put or removed again
C6_PutVisibleUntilRemoved ==
    [][\A k \in Keys :
          (\/ \E v \in Vals : insert(k, v)
           \/ (live[k] # NoVal /\ live'[k] = live[k] /\ Visible(k)))
          => (ContainsAfter(k) /\ GetAfter(k) = live'[k])]_vars

\* C7: a lookup of a live key succeeds within two probes: the shard route(k),
\* then the shard lookup(k) returns; the fan-out over the remaining shards is
\* never what finds it
C7_FoundInTwoProbes ==
    \A k \in LiveKeys :
        \/ TreeContains(shards_[route(k)], k)
        \/ (lookup(k) # NoShard /\ TreeContains(shards_[lookup(k)], k))

\* C8: rebalance leaves the set of keys found and the value get returns for
\* each of them as they were before the call
C8_RebalanceKeepsEntries ==
    [][(\E r \in Ratios : rebalance(r)) =>
          \A k \in Keys :
              /\ ContainsAfter(k) = ContainsResult(k)
              /\ GetAfter(k) = GetResult(k)]_vars

\* rebalance started from a store in which no key has a second copy keeps
\* every entry
RebalanceKeepsEntriesWithoutDuplicates ==
    [][((\E r \in Ratios : rebalance(r)) /\ \A k \in Keys : Cardinality(Holders(k)) <= 1) =>
          \A k \in Keys :
              /\ ContainsAfter(k) = ContainsResult(k)
              /\ GetAfter(k) = GetResult(k)]_vars

C10_RemovePostcondition ==
    [][\A k \in Keys :
          remove(k) =>
              /\ ~ContainsAfter(k)
              /\ size' = size - (IF live[k] # NoVal THEN 1 ELSE 0)
              /\ \A s \in Shards :
                    shard_loads'[s] =
                        shard_loads[s] - (IF s = FirstHolder(k) THEN 1 ELSE 0)
              /\ redirects_'[k] = NoShard]_vars

\* ------------------------------------------ claims: the single-shard map
\* the nodes of the tree rooted at n
RECURSIVE NodesOf(_)
NodesOf(n) == IF n = Nil THEN {} ELSE {n} \cup NodesOf(n.left) \cup NodesOf(n.right)

KeysOf(n) == {m.key : m \in NodesOf(n)}

\* keys inserted into the single-shard map and not removed since
LiveTreeKeys == {k \in TreeKeys : entries[k] # NoVal}

\* the tree without its values: keys, heights and links
RECURSIVE Shape(_)
Shape(n) ==
    IF n = Nil THEN Nil
    ELSE [key |-> n.key, height |-> n.height, left |-> Shape(n.left), right |-> Shape(n.right)]

\* C11: after every insert and remove each node's height field is 1 + the larger
\* of its children's heights (0 for null) and its children's heights differ by
\* at most 1
C11_HeightAndBalance ==
    \A n \in NodesOf(root_) :
        /\ n.height = 1 + Max2(height(n.left), height(n.right))
        /\ height(n.right) - height(n.left) \in {-1, 0, 1}

\* every key is in the tree, which is as low as a tree of that many nodes can be
C11_Witness ==
    /\ KeysOf(root_) = TreeKeys
    /\ height(root_) = 3
    /\ outcome = "inserted"

\* C12: after every insert and remove the tree is a binary search tree without
\* duplicate keys, and contains(k) is true exactly for the live keys
C12_SearchTree ==
    /\ \A n \in NodesOf(root_) :
          /\ \A k \in KeysOf(n.left) : k < n.key
          /\ \A k \in KeysOf(n.right) : n.key < k
    /\ Cardinality(NodesOf(root_)) = Cardinality(KeysOf(root_))
    /\ \A k \in TreeKeys : containsRec(root_, k) <=> k \in LiveTreeKeys

\* a removal has left a tree that still has nodes on both sides of its root
C12_Witness ==
    /\ outcome \in {"removed", "removed_two_children"}
    /\ root_ # Nil
    /\ root_.left # Nil
    /\ root_.right # Nil

\* C13: insert of an absent key adds the entry, reports it as new and raises
\* size by one; insert of a present key overwrites the value, reports it as not
\* new and leaves size, every other entry and the shape of the tree unchanged
C13_InsertPostcondition ==
    [][\A k \in TreeKeys, v \in Vals :
          (entries'[k] = v /\ tree_insert(k, v)) =>
              /\ getRec(root_', k) = v
              /\ \A j \in TreeKeys \ {k} : getRec(root_', j) = getRec(root_, j)
              /\ IF k \in LiveTreeKeys
                 THEN /\ ~insertRec(root_, k, v).inserted
                      /\ size_' = size_
                      /\ Shape(root_') = Shape(root_)
                 ELSE /\ insertRec(root_, k, v).inserted
                      /\ size_' = size_ + 1]_vars

\* an insert has overwritten the value of a key in a tree of several nodes
C13_Witness ==
    /\ outcome = "overwritten"
    /\ size_ = 3
    /\ height(root_) = 2

\* C14: remove of a present key deletes exactly that entry, also when its node
\* has two children, every other key keeps its value and size drops by one;
\* remove of an absent key changes neither the entries nor size
C14_RemovePostcondition ==
    [][\A k \in TreeKeys :
          (entries'[k] = NoVal /\ tree_remove(k)) =>
              /\ getRec(root_', k) = NotFound
              /\ \A j \in TreeKeys \ {k} : getRec(root_', j) = getRec(root_, j)
              /\ IF k \in LiveTreeKeys
                 THEN /\ removeRec(root_, k).removed
                      /\ size_' = size_ - 1
                 ELSE /\ ~removeRec(root_, k).removed
                      /\ size_' = size_
                      /\ root_' = root_]_vars

\* a node with two children has just been removed and entries with different
\* values remain
C14_Witness ==
    /\ outcome = "removed_two_children"
    /\ size_ >= 2
    /\ \E j, k \in LiveTreeKeys : entries[j] # entries[k]

\* C15: get(k) of a key that is not live ends in NotFound, on the single-shard
\* map and on the sharded store alike
C15_GetNotFound ==
    /\ \A k \in TreeKeys \ LiveTreeKeys : getRec(root_, k) = NotFound
    /\ \A k \in Keys \ LiveKeys : GetResult(k) = NotFound

\* C16: on a non-empty map minKey and maxKey return the smallest and the largest
\* live key; on an empty map both end in the Empty error
C16_MinMaxKey ==
    IF LiveTreeKeys = {}
    THEN MinKeyOf(root_) = EmptyError /\ MaxKeyOf(root_) = EmptyError
    ELSE MinKeyOf(root_) = MinOf(LiveTreeKeys) /\ MaxKeyOf(root_) = MaxOf(LiveTreeKeys)

\* the smallest and the largest key have been removed from a map that held them
C16_Witness ==
    /\ outcome \in {"removed", "removed_two_children"}
    /\ MinKeyOf(root_) = 1
    /\ MaxKeyOf(root_) = MaxTreeKey - 1
    /\ size_ = MaxTreeKey - 1

\* -------------------------------------- claims: counters, locks, barrier
\* no call is in progress on the store
Quiescent ==
    /\ \A t \in Threads : thr[t].pc = "idle"
    /\ barrier = "free"

\* C17: while no mutation of a shard is in progress its element counter equals
\* the number of entries in its tree; the counter moves only in a step of the
\* thread that holds the shard's mutex, by +1 exactly when an insert added a key
\* and by -1 exactly when a remove deleted one
C17_CounterMatchesTree ==
    /\ [](\A s \in Shards : lock[s] = NoThread => local_size[s] = TreeSize(shards_[s]))
    /\ [][\A s \in Shards :
            /\ local_size'[s] - local_size[s] = TreeSize(shards_'[s]) - TreeSize(shards_[s])
            /\ local_size'[s] # local_size[s] =>
                  /\ lock[s] # NoThread
                  /\ thr[lock[s]].pc = "locked"
                  /\ thr[lock[s]].idx = s
                  /\ \/ (local_size'[s] = local_size[s] + 1 /\ thr[lock[s]].op = "insert")
                     \/ (local_size'[s] = local_size[s] - 1 /\ thr[lock[s]].op = "remove")]_vars

\* a remove holds the mutex of a shard that has entries while another shard,
\* not held, has entries too
C17_Witness ==
    \E t \in Threads, s \in Shards :
        /\ thr[t].pc = "locked"
        /\ thr[t].op = "remove"
        /\ TreeContains(shards_[thr[t].idx], thr[t].key)
        /\ lock[s] = NoThread
        /\ local_size[s] >= 1

C19_RebalanceExcludesOperations ==
    barrier = "exclusive" =>
        /\ \A t \in Threads : thr[t].pc # "locked"
        /\ \A s \in Shards : lock[s] = NoThread

\* C20: while an insert or remove executes on a shard's tree no other insert,
\* remove, contains or get executes on the tree of that shard
C20_ShardMutualExclusion ==
    \A t1, t2 \in Threads :
        (/\ t1 # t2
         /\ thr[t1].pc = "locked"
         /\ thr[t2].pc = "locked"
         /\ thr[t1].op \in {"insert", "remove"})
        => thr[t1].idx # thr[t2].idx

\* two puts are routed to the same shard: one holds its mutex, the other waits
C20_Witness ==
    \E t1, t2 \in Threads :
        /\ t1 # t2
        /\ thr[t1].op = "insert" /\ thr[t1].pc = "locked"
        /\ thr[t2].op = "insert" /\ thr[t2].pc = "wait"
        /\ thr[t1].idx = thr[t2].idx
        /\ lock[thr[t1].idx] = t1

\* ------------------------------------------- claims: readers and writers
\* C21: two reads of the same shard can be in progress together, a reader is
\* blocked only by a writer of the shard and never by another reader: no
\* contains/get waits for a shard mutex that another contains/get holds
C21_ReadersShareShard ==
    \A t1, t2 \in Threads :
        (/\ t1 # t2
         /\ thr[t1].op = "lookup"
         /\ thr[t1].pc = "wait"
         /\ lock[thr[t1].idx] = t2)
        => thr[t2].op # "lookup"

\* two puts routed to different shards are inside their critical sections at once
C21_PutsInParallel ==
    \E t1, t2 \in Threads :
        /\ thr[t1].op = "insert" /\ thr[t1].pc = "locked"
        /\ thr[t2].op = "insert" /\ thr[t2].pc = "locked"
        /\ thr[t1].idx # thr[t2].idx

C27_RecordRedirectFrame ==
    [][/\ index_ret'.op = "record_redirect" =>
            \A k \in Keys, n \in Shards, a \in Shards :
                index_record_redirect(k, n, a) =>
                    IF n = a THEN index' = index
                    ELSE /\ index'.redirects_[k] = a
                         /\ \A j \in Keys \ {k} : index'.redirects_[j] = index.redirects_[j]
       /\ index_ret'.op = "lookup" =>
            \A k \in Keys :
                index_lookup(k) =>
                    /\ index_ret'.value = index.redirects_[k]
                    /\ index_ret'.value \in Shards <=> index.redirects_[k] # NoShard
                    /\ index'.redirects_ = index.redirects_]_vars

\* a key has been recorded twice with different shards and the index holds one
\* entry, the later one, which a lookup has returned
C27_Witness ==
    /\ index.total_redirects_ = 2
    /\ Cardinality({k \in Keys : index.redirects_[k] # NoShard}) = 1
    /\ index_ret.op = "lookup"
    /\ index_ret.value = 1
    /\ index.hits_ = 1

\* C28: gc_expired(f) removes exactly the entries k -> s with f(k) = s, keeps
\* every entry with f(k) # s with its recorded shard, and returns the number of
\* entries it removed
C28_GcRemovesExpired ==
    [][index_ret'.op = "gc_expired" =>
          \A f \in NaturalFns :
              index_gc_expired(f) =>
                  /\ \A k \in Keys :
                        index'.redirects_[k] =
                            IF index.redirects_[k] # NoShard /\ f[k] = index.redirects_[k]
                            THEN NoShard ELSE index.redirects_[k]
                  /\ index_ret'.value =
                        Cardinality({k \in Keys : index.redirects_[k] # NoShard
                                                  /\ f[k] = index.redirects_[k]})]_vars

\* a gc_expired has removed two entries and kept one
C28_Witness ==
    /\ index_ret.op = "gc_expired"
    /\ index_ret.value = 2
    /\ Cardinality({k \in Keys : index.redirects_[k] # NoShard}) = 1

\* C29: once every key with a redirect entry has been moved into its natural
\* shard, gc_redirects() leaves the redirect index empty, and contains/get
\* still succeed for every key that is stored
C29_GcEmptiesIndex ==
    [][(/\ \E k \in Keys : redirects_[k] # NoShard
        /\ \A k \in Keys : redirects_[k] # NoShard => Holders(k) = {natural(k)}
        /\ gc_redirects)
       => /\ \A k \in Keys : redirects_'[k] = NoShard
          /\ \A k \in Keys : Holders(k) # {} =>
                /\ ContainsAfter(k)
                /\ GetAfter(k) # NotFound]_vars

\* ----------------------------------------------- claims: functional tree
\* what tree i holds: the value of every key, NoVal for a key it does not hold
ContentsOf(h, root) ==
    [k \in FnKeys |-> IF fn_containsOf(h, root, k) THEN fn_getOf(h, root, k) ELSE NoVal]

\* nodes that tree 1 and tree 2 both reach
SharedNodes ==
    {n \in 1..Len(heap) :
        /\ \E i \in 1..Len(Reach(heap, fn_root[1])) : Reach(heap, fn_root[1])[i] = n
        /\ \E i \in 1..Len(Reach(heap, fn_root[2])) : Reach(heap, fn_root[2])[i] = n}

\* C30: after s = t.snapshot() an insert or remove on t leaves the keys, the
\* values and the size of s as they were, and an insert or remove on s leaves
\* t as it was; the snapshot itself holds what the tree it was taken from holds
C30_SnapshotUnaffected ==
    [][/\ fn_op'.op \in {"insert", "remove"} =>
            \A j \in Trees \ {fn_op'.tree} :
                /\ ContentsOf(heap', fn_root'[j]) = ContentsOf(heap, fn_root[j])
                /\ fn_size'[j] = fn_size[j]
       /\ fn_op'.op = "snapshot" =>
            \A j \in Trees :
                /\ ContentsOf(heap', fn_root'[j]) = ContentsOf(heap, fn_root[3 - fn_op'.tree])
                /\ fn_size'[j] = fn_size[3 - fn_op'.tree]]_vars

\* after a snapshot the two trees have gone apart, in keys and in the value of
\* a key both hold, while they still share nodes
C30_Witness ==
    /\ SharedNodes # {}
    /\ fn_size[1] # fn_size[2]
    /\ \E k \in FnKeys :
          /\ fn_containsOf(heap, fn_root[1], k)
          /\ fn_containsOf(heap, fn_root[2], k)
          /\ fn_getOf(heap, fn_root[1], k) # fn_getOf(heap, fn_root[2], k)

\* C31: after each step of one sequence of insert and remove calls applied
\* to AVLTreeConcurrent, AVLTreeDOD and AVLTreeFunctional alike, the three
\* agree on size(), on contains(k) for every key, on get(k) for every key
\* present, and on minKey() and maxKey() when they are not empty
C31_ParadigmsAgree ==
    /\ size_ = fn_size[1]
    /\ size_ = dod.size_
    /\ \A k \in DodKeys :
          /\ containsRec(root_, k) = fn_containsOf(heap, fn_root[1], k)
          /\ containsRec(root_, k) = dod_containsOf(dod, k)
          /\ containsRec(root_, k) =>
                /\ getRec(root_, k) = entries[k]
                /\ fn_getOf(heap, fn_root[1], k) = getRec(root_, k)
                /\ dod_getOf(dod, k) = {getRec(root_, k)}
    /\ root_ # Nil =>
          /\ fn_minKeyOf(heap, fn_root[1]) = MinKeyOf(root_)
          /\ dod_minKeyOf(dod) = {MinKeyOf(root_)}
          /\ fn_maxKeyOf(heap, fn_root[1]) = MaxKeyOf(root_)
          /\ dod_maxKeyOf(dod) = {MaxKeyOf(root_)}

\* the three maps hold three keys after a removal of a key with two children,
\* and the AVLTreeDOD holds a slot on its free list
C31_Witness ==
    /\ outcome = "removed_two_children"
    /\ size_ = 2
    /\ dod.size_ = 2
    /\ fn_size[1] = 2
    /\ dod.free_list_ # <<>>

\* the keys and values of a subtree in order, left to right
RECURSIVE InOrder(_)
InOrder(n) ==
    IF n = Nil THEN <<>>
    ELSE InOrder(n.left) \o <<<<n.key, n.value>>>> \o InOrder(n.right)

\* the height of a subtree counted from its links, whatever its fields say
RECURSIVE TrueHeight(_)
TrueHeight(n) == IF n = Nil THEN 0 ELSE 1 + Max2(TrueHeight(n.left), TrueHeight(n.right))

\* a valid AVL subtree: keys strictly increasing in order, every height field
\* correct, and the two children of every node differing in height by at most 1
IsAVL(n) ==
    /\ \A i \in 1..(Len(InOrder(n)) - 1) : InOrder(n)[i][1] < InOrder(n)[i + 1][1]
    /\ \A m \in NodesOf(n) :
          /\ m.height = TrueHeight(m)
          /\ TrueHeight(m.right) - TrueHeight(m.left) \in {-1, 0, 1}

\* C32: rebalance(node), on a node over two valid AVL subtrees with correct
\* heights that differ in height by at most 2, returns a valid AVL subtree
\* with the same keys and values in order; it rotates twice exactly when the
\* taller child leans the other way, once when it does not, and returns the
\* node itself when the heights differ by at most 1.  rotateLeft and
\* rotateRight keep the keys and values in order and leave x, then y, with
\* correct heights
C32_RebalanceAndRotations ==
    LET n == rb.in
        out == rb.out
        diff == height(n.right) - height(n.left)
    IN /\ rb.op = "rebalance" =>
            /\ IsAVL(out)
            /\ InOrder(out) = InOrder(n)
            /\ diff = -2 => out.key = IF balanceFactor(n.left) > 0
                                      THEN n.left.right.key ELSE n.left.key
            /\ diff = 2 => out.key = IF balanceFactor(n.right) < 0
                                     THEN n.right.left.key ELSE n.right.key
            /\ diff \in {-1, 0, 1} => out = updateHeight(n)
       /\ rb.op = "rotateLeft" =>
            /\ InOrder(out) = InOrder(n)
            /\ out.key = n.right.key
            /\ out.left.key = n.key
            /\ out.left.height = TrueHeight(out.left)
            /\ out.height = TrueHeight(out)
       /\ rb.op = "rotateRight" =>
            /\ InOrder(out) = InOrder(n)
            /\ out.key = n.left.key
            /\ out.right.key = n.key
            /\ out.right.height = TrueHeight(out.right)
            /\ out.height = TrueHeight(out)

\* rebalance rotated twice: the left subtree was taller by 2 and leaned right
C32_Witness ==
    /\ rb.op = "rebalance"
    /\ height(rb.in.right) - height(rb.in.left) = -2
    /\ balanceFactor(rb.in.left) > 0
    /\ rb.out.key = rb.in.left.right.key
    /\ height(rb.in.left) = 3

\* rebalance rotated once although the taller child was level
C32_WitnessLevelChild ==
    /\ rb.op = "rebalance"
    /\ height(rb.in.right) - height(rb.in.left) = 2
    /\ balanceFactor(rb.in.right) = 0
    /\ rb.out.key = rb.in.right.key

\* the slots reached from node, parent before children
RECURSIVE DodReach(_, _)
DodReach(d, node) ==
    IF node = INVALID THEN <<>>
    ELSE <<node>> \o DodReach(d, d.left_[node]) \o DodReach(d, d.right_[node])

\* how often idx occurs in seq
Occurrences(seq, idx) == Cardinality({i \in 1..Len(seq) : seq[i] = idx})

\* C36: after any sequence of insert, remove and clear on an AVLTreeDOD,
\* every allocated slot is reached from the root exactly once or is on the free
\* list exactly once, never both, and size() plus the length of the free list
\* is the number of allocated slots; a remove of a present key lengthens the
\* free list by one; an insert of a new key while the free list is not empty
\* shortens it by one and does not grow the arrays
C36_SlotAccounting ==
    /\ [](/\ \A idx \in 1..Len(dod.keys_) :
                Occurrences(DodReach(dod, dod.root_), idx) + Occurrences(dod.free_list_, idx) = 1
          /\ dod.size_ + Len(dod.free_list_) = Len(dod.keys_)
          /\ Len(dod.values_) = Len(dod.keys_)
          /\ Len(dod.left_) = Len(dod.keys_)
          /\ Len(dod.right_) = Len(dod.keys_)
          /\ Len(dod.height_) = Len(dod.keys_))
    /\ [][dod' # dod /\ dod_ret'.op = "remove" /\ dod_ret'.idx # INVALID =>
             Len(dod'.free_list_) = Len(dod.free_list_) + 1]_vars
    /\ [][dod' # dod /\ dod_ret'.op = "insert" /\ dod_ret'.idx = INVALID /\ dod.free_list_ # <<>> =>
             /\ Len(dod'.free_list_) = Len(dod.free_list_) - 1
             /\ Len(dod'.keys_) = Len(dod.keys_)]_vars

\* a new key was inserted into a freed slot while another slot stays free, and
\* the slots of the tree are no longer in the order they were first handed out
C36_Witness ==
    /\ dod_ret.op = "insert"
    /\ dod_ret.idx = INVALID
    /\ dod.free_list_ # <<>>
    /\ dod.size_ = 2
    /\ Len(dod.keys_) = 3
    /\ dod.root_ # 1

\* C37: AVLTreeDOD answers get(k) of an absent key and minKey()/maxKey() of an
\* empty tree with an error, and never subscripts its arrays with INVALID
C37_ErrorsSurfaced ==
    /\ dod_ret.op = "get" /\ ~dod_containsOf(dod, dod_ret.key) => dod_ret.value = NotFound
    /\ dod_ret.op \in {"minKey", "maxKey"} /\ dod.size_ = 0 => dod_ret.value = EmptyError
    /\ dod_ret.op \in {"get", "minKey", "maxKey"} => dod_ret.idx # INVALID

\* the keys defined and not deleted since
DefinedKeys == {k \in DiccKeys : dicc_hist.defs[k] # NoVal}

\* C39: after any sequence of definir and borrar on a DiccionarioAVL,
\* cardinal() is the number of distinct keys defined; a definir of a key
\* already defined replaces its definition and leaves cardinal() as it was
C39_CardinalCountsKeys ==
    dicc.status = "ok" => dicc.cardinal = Cardinality(DefinedKeys)

\* no path of child links from node is longer than fuel nodes
RECURSIVE OlDepthOK(_, _, _)
OlDepthOK(h, node, fuel) ==
    \/ node = nullptr
    \/ /\ fuel > 0
       /\ OlDepthOK(h, h[node].left, fuel - 1)
       /\ OlDepthOK(h, h[node].right, fuel - 1)

\* the subtree of node as a tree of nodes
RECURSIVE OlTree(_, _)
OlTree(h, node) ==
    IF node = nullptr THEN Nil
    ELSE [key |-> h[node].key, value |-> h[node].value, height |-> h[node].height,
          left |-> OlTree(h, h[node].left), right |-> OlTree(h, h[node].right)]

\* no thread is inside insert
OlQuiescent == \A t \in Threads : ol.th[t].pc = "idle"

\* C33: once concurrent inserts of distinct keys into a non-empty
\* AVLTreeOptimisticLock have all returned, every key inserted is contained,
\* size() is the number of keys, and the tree is a balanced search tree
C33_ConcurrentInserts ==
    OlQuiescent =>
        /\ OlDepthOK(ol.heap, ol.root_, Len(ol.heap))
        /\ LET tree == OlTree(ol.heap, ol.root_)
           IN /\ \A k \in ol.done : containsRec(tree, k)
              /\ ol.size_ = Cardinality(ol.done)
              /\ IsAVL(tree)

\* C34: a contains(k) of AVLTreeFineGrained during which no insert or remove
\* of k started answers whether k was in the tree when it was called
C34_ContainsAmongWriters ==
    (fg.r.pc = "done" /\ ~fg.r.touched) => fg.r.result = fg.r.present

\* C35: the value size() returns while puts, removes and rebalance run is
\* the number of live keys at some instant between its call and its return
C35_SizeLinearizable ==
    sz.pc = "done" => sz.total \in sz.seen

====
